---- MODULE Spec2Model ----
(***************************************************************************)
(* Monty Hall terminal application: the doors, the host policy and the     *)
(* game state machine (pkg/game), the aggregate statistics (pkg/stats)     *)
(* and the Update loop of the terminal UI (pkg/ui).                        *)
(*                                                                         *)
(* Two specifications share the state:                                     *)
(*   Spec    a Game driven directly through its exported methods;          *)
(*   SpecUI  the program: ui.Model driven by key presses and by the        *)
(*           RevealDelayMsg ticks it starts.                               *)
(*                                                                         *)
(* Not modelled: wall-clock fields (GameStartTime, GameDuration,           *)
(* Timestamp), the history, daily, streak and time statistics, window      *)
(* size, rendering and animations. No modelled operation reads them.       *)
(***************************************************************************)
EXTENDS Integers, Sequences, FiniteSets, TLC

\* ------------------------------------------------------------------------
\* Constants of the program
\* ------------------------------------------------------------------------

NumDoors == 3

\* DoorState
Closed == "Closed"
Opened == "Opened"
Selected == "Selected"

\* DoorContent
Goat == "Goat"
Car == "Car"

\* GamePhase (iota order)
Setup == 0
InitialChoice == 1
HostReveal == 2
FinalChoice == 3
GameOver == 4

\* PlayerStrategy
Stay == "Stay"
Switch == "Switch"

\* ------------------------------------------------------------------------
\* Bounds of the model
\* ------------------------------------------------------------------------

\* how far outside 0..NumDoors-1 a caller's door index may lie
ArgSlack == 1

\* the number of games one session of the UI plays to the end
MaxGames == 1

\* the largest bound given to Intn
MaxIntn == 4

\* the number of games recorded between two resets of the statistics
MaxRecorded == 5

\* the number of watchers registered with the config Manager
MaxWatchers == 1

\* ------------------------------------------------------------------------
\* Values
\* ------------------------------------------------------------------------

\* a nil *GameResult
NoResult == [nil |-> TRUE]

\* a nil *Game
NoGame == [nil |-> TRUE]

\* a nil error
NoErr == "nil"

ErrNotInitialPhase == "not in initial choice phase"
ErrNotFinalPhase == "not in final choice phase"
ErrOutOfRange == "door index out of range"
ErrOpenedDoor == "cannot choose an opened door"
ErrNoSwitchDoor == "no valid door to switch to"
ErrInvalidDoorCount == "invalid number of doors"
ErrInvalidPlayerChoice == "invalid player choice"
ErrNoValidDoors == "no valid doors to open"
ErrHost == "host error"

\* the indices of a slice of n elements, in iteration order
Indices(n) == [k \in 1..n |-> k - 1]

\* len() of a slice modelled as a function on 0..n-1
SliceLen(s) == Cardinality(DOMAIN s)

\* ------------------------------------------------------------------------
\* Door
\* ------------------------------------------------------------------------

NewDoor(id, position, content) ==
    [ID |-> id, State |-> Closed, Content |-> content, Position |-> position]

IsOpen(d) == d.State = Opened

IsSelected(d) == d.State = Selected

IsClosed(d) == d.State = Closed

HasCar(d) == d.Content = Car

HasGoat(d) == d.Content = Goat

\* slip: the comparison i >= carPosition puts a car behind every later door
CreateDoorsWithRandomCar_CarFromIndex(carPosition) ==
    [i \in 0..(NumDoors - 1) |->
        NewDoor(i + 1, i, IF i >= carPosition THEN Car ELSE Goat)]

\* rng.Intn(NumDoors) is the argument carPosition
CreateDoorsWithRandomCar(carPosition) ==
    [i \in 0..(NumDoors - 1) |->
        NewDoor(i + 1, i, IF i = carPosition THEN Car ELSE Goat)]

\* ------------------------------------------------------------------------
\* Secure random source
\* ------------------------------------------------------------------------

\* the values one draw of the random source can deliver for a bound of n
RandomDraws == 0..(NumDoors - 1)

\* SecureRandom.Intn: 0 for n <= 0, else a value in [0, n); draw is the
\* outcome of the generator (secure or fallback), reduced into range
SecureIntn(n, draw) == IF n <= 0 THEN 0 ELSE draw % n

\* the raw outcomes of one generator call, before the reduction into [0, n)
SourceDraws == 0..MaxIntn

\* the bounds n that Intn is called with
IntnArgs == (0 - MaxIntn)..MaxIntn

\* slip: the fallback's bound is taken inclusive
SecureRandomIntn_FallbackInclusive(n, cryptoOk, secureDraw, fallbackDraw) ==
    IF n <= 0 THEN 0
    ELSE IF cryptoOk THEN secureDraw % n
    ELSE fallbackDraw % (n + 1)

\* SecureRandom.Intn with its two paths apart: cryptoOk is whether
\* crypto/rand delivered, secureDraw its outcome, fallbackDraw the outcome of
\* the time-seeded math/rand generator
SecureRandomIntn(n, cryptoOk, secureDraw, fallbackDraw) ==
    IF n <= 0 THEN 0
    ELSE IF cryptoOk THEN secureDraw % n
    ELSE fallbackDraw % n

\* the car position CreateDoorsWithRandomCar draws: rng.Intn(NumDoors) of a
\* math/rand generator seeded with the clock, seededDraw its outcome
RandomCarPosition(seededDraw) == seededDraw % NumDoors

\* ------------------------------------------------------------------------
\* Host
\* ------------------------------------------------------------------------

\* slip: the host forgets to look behind the door
HostValidChoices_AnyOtherDoor(doors, playerChoice) ==
    SelectSeq(Indices(SliceLen(doors)), LAMBDA i : i # playerChoice)

\* slip: the player's own door is not excluded
HostValidChoices_AnyGoat(doors, playerChoice) ==
    SelectSeq(Indices(SliceLen(doors)), LAMBDA i : HasGoat(doors[i]))

\* slip: HasCar is tested where HasGoat is meant
HostValidChoices_HasCar(doors, playerChoice) ==
    SelectSeq(Indices(SliceLen(doors)),
              LAMBDA i : i # playerChoice /\ HasCar(doors[i]))

HostValidChoices(doors, playerChoice) ==
    SelectSeq(Indices(SliceLen(doors)),
              LAMBDA i : i # playerChoice /\ HasGoat(doors[i]))

\* slip: the host draws among the doors the player left, car or not
ChooseDoorToOpen_DrawAmongOthers(doors, playerChoice, draw) ==
    IF SliceLen(doors) # NumDoors
    THEN [door |-> -1, err |-> ErrInvalidDoorCount]
    ELSE IF playerChoice < 0 \/ playerChoice >= SliceLen(doors)
    THEN [door |-> -1, err |-> ErrInvalidPlayerChoice]
    ELSE LET others == SelectSeq(Indices(SliceLen(doors)), LAMBDA i : i # playerChoice)
         IN [door |-> others[SecureIntn(Len(others), draw) + 1], err |-> NoErr]

\* slip: the draw is dropped and the first candidate always taken
ChooseDoorToOpen_AlwaysFirst(doors, playerChoice, draw) ==
    IF SliceLen(doors) # NumDoors
    THEN [door |-> -1, err |-> ErrInvalidDoorCount]
    ELSE IF playerChoice < 0 \/ playerChoice >= SliceLen(doors)
    THEN [door |-> -1, err |-> ErrInvalidPlayerChoice]
    ELSE LET validChoices == HostValidChoices(doors, playerChoice)
         IN IF Len(validChoices) = 0
            THEN [door |-> -1, err |-> ErrNoValidDoors]
            ELSE [door |-> validChoices[1], err |-> NoErr]

ChooseDoorToOpen(doors, playerChoice, draw) ==
    IF SliceLen(doors) # NumDoors
    THEN [door |-> -1, err |-> ErrInvalidDoorCount]
    ELSE IF playerChoice < 0 \/ playerChoice >= SliceLen(doors)
    THEN [door |-> -1, err |-> ErrInvalidPlayerChoice]
    ELSE LET validChoices == HostValidChoices(doors, playerChoice)
         IN IF Len(validChoices) = 0
            THEN [door |-> -1, err |-> ErrNoValidDoors]
            ELSE IF Len(validChoices) = 1
            THEN [door |-> validChoices[1], err |-> NoErr]
            ELSE [door |-> validChoices[SecureIntn(Len(validChoices), draw) + 1],
                  err |-> NoErr]

ErrNoDoorAvailable == "no door available to switch to"

\* slip: the door the host opened is not skipped
GetSwitchRecommendation_OpenedDoorToo(doors, playerChoice) ==
    IF SliceLen(doors) # NumDoors
    THEN [door |-> -1, err |-> ErrInvalidDoorCount]
    ELSE IF playerChoice < 0 \/ playerChoice >= SliceLen(doors)
    THEN [door |-> -1, err |-> ErrInvalidPlayerChoice]
    ELSE LET others == SelectSeq(Indices(SliceLen(doors)),
                           LAMBDA i : i # playerChoice)
         IN IF Len(others) = 0
            THEN [door |-> -1, err |-> ErrNoDoorAvailable]
            ELSE [door |-> Head(others), err |-> NoErr]

GetSwitchRecommendation(doors, playerChoice) ==
    IF SliceLen(doors) # NumDoors
    THEN [door |-> -1, err |-> ErrInvalidDoorCount]
    ELSE IF playerChoice < 0 \/ playerChoice >= SliceLen(doors)
    THEN [door |-> -1, err |-> ErrInvalidPlayerChoice]
    ELSE LET others == SelectSeq(Indices(SliceLen(doors)),
                           LAMBDA i : i # playerChoice /\ ~IsOpen(doors[i]))
         IN IF Len(others) = 0
            THEN [door |-> -1, err |-> ErrNoDoorAvailable]
            ELSE [door |-> Head(others), err |-> NoErr]

HintChooseFirst == "Choose a door first!"
HintNone == "I can't give you a hint right now."
HintSwitch == "Statistically, switching to door %d gives you better odds!"

\* Host.GetHint: the text and the door number printed into it, 0 when the
\* text names no door
GetHint(doors, playerChoice) ==
    IF playerChoice < 0 \/ playerChoice >= SliceLen(doors)
    THEN [text |-> HintChooseFirst, door |-> 0]
    ELSE LET r == GetSwitchRecommendation(doors, playerChoice)
         IN IF r.err # NoErr
            THEN [text |-> HintNone, door |-> 0]
            ELSE [text |-> HintSwitch, door |-> r.door + 1]

\* ------------------------------------------------------------------------
\* Game
\* ------------------------------------------------------------------------

\* the car's index as NewGame finds it: the first door with the car, the
\* zero value when there is none
FirstCarIndex(doors) ==
    LET cars == SelectSeq(Indices(SliceLen(doors)), LAMBDA i : HasCar(doors[i]))
    IN IF Len(cars) = 0 THEN 0 ELSE Head(cars)

\* slip: the last assignment, Phase = InitialChoice, is missing
NewGame_StaysInSetup(carPosition) ==
    LET doors == CreateDoorsWithRandomCar(carPosition)
    IN [Doors |-> doors,
        Phase |-> Setup,
        PlayerInitialChoice |-> -1,
        PlayerFinalChoice |-> -1,
        HostOpenedDoor |-> -1,
        CarPosition |-> FirstCarIndex(doors),
        Result |-> NoResult]

NewGame(carPosition) ==
    LET doors == CreateDoorsWithRandomCar(carPosition)
    IN [Doors |-> doors,
        Phase |-> InitialChoice,
        PlayerInitialChoice |-> -1,
        PlayerFinalChoice |-> -1,
        HostOpenedDoor |-> -1,
        CarPosition |-> FirstCarIndex(doors),
        Result |-> NoResult]

\* the value a transition method leaves behind: the game, the returned
\* error and the values it assigned to Phase, in order
Ret(g, err, phases) == [game |-> g, err |-> err, phases |-> phases]

\* slip: the win is read off the first pick
calculateResult_WonFromInitial(g) ==
    LET strategy == IF g.PlayerFinalChoice # g.PlayerInitialChoice
                    THEN Switch ELSE Stay
        won == HasCar(g.Doors[g.PlayerInitialChoice])
    IN [g EXCEPT !.Result =
            [Won |-> won,
             Strategy |-> strategy,
             InitialChoice |-> g.PlayerInitialChoice + 1,
             FinalChoice |-> g.PlayerFinalChoice + 1,
             CarPosition |-> g.CarPosition + 1,
             HostOpenedDoor |-> g.HostOpenedDoor + 1]]

\* slip: the strategy is derived from the host's door instead of the first pick
calculateResult_StrategyFromHost(g) ==
    LET strategy == IF g.PlayerFinalChoice # g.HostOpenedDoor
                    THEN Switch ELSE Stay
        won == HasCar(g.Doors[g.PlayerFinalChoice])
    IN [g EXCEPT !.Result =
            [Won |-> won,
             Strategy |-> strategy,
             InitialChoice |-> g.PlayerInitialChoice + 1,
             FinalChoice |-> g.PlayerFinalChoice + 1,
             CarPosition |-> g.CarPosition + 1,
             HostOpenedDoor |-> g.HostOpenedDoor + 1]]

\* slip: won is read as "the player moved"
calculateResult_WonIfMoved(g) ==
    LET won == g.PlayerFinalChoice # g.PlayerInitialChoice
        strategy == IF g.PlayerFinalChoice # g.PlayerInitialChoice THEN Switch ELSE Stay
    IN [g EXCEPT !.Result =
            [Won |-> won,
             Strategy |-> strategy,
             InitialChoice |-> g.PlayerInitialChoice + 1,
             FinalChoice |-> g.PlayerFinalChoice + 1,
             CarPosition |-> g.CarPosition + 1,
             HostOpenedDoor |-> g.HostOpenedDoor + 1]]

\* slip: the car's position is emitted as the internal index
calculateResult_CarZeroBased(g) ==
    LET won == HasCar(g.Doors[g.PlayerFinalChoice])
        strategy == IF g.PlayerFinalChoice # g.PlayerInitialChoice THEN Switch ELSE Stay
    IN [g EXCEPT !.Result =
            [Won |-> won,
             Strategy |-> strategy,
             InitialChoice |-> g.PlayerInitialChoice + 1,
             FinalChoice |-> g.PlayerFinalChoice + 1,
             CarPosition |-> g.CarPosition,
             HostOpenedDoor |-> g.HostOpenedDoor + 1]]

calculateResult(g) ==
    LET strategy == IF g.PlayerFinalChoice # g.PlayerInitialChoice
                    THEN Switch ELSE Stay
        won == HasCar(g.Doors[g.PlayerFinalChoice])
    IN [g EXCEPT !.Result =
            [Won |-> won,
             Strategy |-> strategy,
             InitialChoice |-> g.PlayerInitialChoice + 1,
             FinalChoice |-> g.PlayerFinalChoice + 1,
             CarPosition |-> g.CarPosition + 1,
             HostOpenedDoor |-> g.HostOpenedDoor + 1]]

\* slip: the phase guard is missing
MakeInitialChoice_NoPhaseGuard(g, doorIndex, draw) ==
    IF doorIndex < 0 \/ doorIndex >= SliceLen(g.Doors)
    THEN Ret(g, ErrOutOfRange, <<>>)
    ELSE LET g1 == [g EXCEPT !.PlayerInitialChoice = doorIndex,
                             !.Doors[doorIndex].State = Selected,
                             !.Phase = HostReveal]
             host == ChooseDoorToOpen(g1.Doors, doorIndex, draw)
         IN IF host.err # NoErr
            THEN Ret(g1, ErrHost, <<HostReveal>>)
            ELSE Ret([g1 EXCEPT !.HostOpenedDoor = host.door,
                                !.Doors[host.door].State = Opened,
                                !.Phase = FinalChoice],
                     NoErr, <<HostReveal, FinalChoice>>)

\* slip: only a finished game is refused
MakeInitialChoice_GuardGameOverOnly(g, doorIndex, draw) ==
    IF g.Phase = GameOver
    THEN Ret(g, ErrNotInitialPhase, <<>>)
    ELSE MakeInitialChoice_NoPhaseGuard(g, doorIndex, draw)

MakeInitialChoice(g, doorIndex, draw) ==
    IF g.Phase # InitialChoice
    THEN Ret(g, ErrNotInitialPhase, <<>>)
    ELSE IF doorIndex < 0 \/ doorIndex >= SliceLen(g.Doors)
    THEN Ret(g, ErrOutOfRange, <<>>)
    ELSE LET g1 == [g EXCEPT !.PlayerInitialChoice = doorIndex,
                             !.Doors[doorIndex].State = Selected,
                             !.Phase = HostReveal]
             host == ChooseDoorToOpen(g1.Doors, doorIndex, draw)
         IN IF host.err # NoErr
            THEN Ret(g1, ErrHost, <<HostReveal>>)
            ELSE Ret([g1 EXCEPT !.HostOpenedDoor = host.door,
                                !.Doors[host.door].State = Opened,
                                !.Phase = FinalChoice],
                     NoErr, <<HostReveal, FinalChoice>>)

\* slip: the first pick is deselected before the opened-door check
MakeFinalChoice_ResetBeforeCheck(g, doorIndex) ==
    IF g.Phase # FinalChoice
    THEN Ret(g, ErrNotFinalPhase, <<>>)
    ELSE IF doorIndex < 0 \/ doorIndex >= SliceLen(g.Doors)
    THEN Ret(g, ErrOutOfRange, <<>>)
    ELSE LET g1 == [g EXCEPT !.Doors[g.PlayerInitialChoice].State = Closed]
         IN IF IsOpen(g.Doors[doorIndex])
            THEN Ret(g1, ErrOpenedDoor, <<>>)
            ELSE LET g2 == [g1 EXCEPT !.PlayerFinalChoice = doorIndex,
                                      !.Doors[doorIndex].State = Selected,
                                      !.Phase = GameOver]
                 IN Ret(calculateResult(g2), NoErr, <<GameOver>>)

\* slip: the result is not computed
MakeFinalChoice_NoResult(g, doorIndex) ==
    IF g.Phase # FinalChoice
    THEN Ret(g, ErrNotFinalPhase, <<>>)
    ELSE IF doorIndex < 0 \/ doorIndex >= SliceLen(g.Doors)
    THEN Ret(g, ErrOutOfRange, <<>>)
    ELSE IF IsOpen(g.Doors[doorIndex])
    THEN Ret(g, ErrOpenedDoor, <<>>)
    ELSE LET g1 == [g EXCEPT !.Doors[g.PlayerInitialChoice].State = Closed]
             g2 == [g1 EXCEPT !.PlayerFinalChoice = doorIndex,
                              !.Doors[doorIndex].State = Selected,
                              !.Phase = GameOver]
         IN Ret(g2, NoErr, <<GameOver>>)

\* slip: the opened-door check is missing
MakeFinalChoice_NoOpenCheck(g, doorIndex) ==
    IF g.Phase # FinalChoice
    THEN Ret(g, ErrNotFinalPhase, <<>>)
    ELSE IF doorIndex < 0 \/ doorIndex >= SliceLen(g.Doors)
    THEN Ret(g, ErrOutOfRange, <<>>)
    ELSE LET g1 == [g EXCEPT !.Doors[g.PlayerInitialChoice].State = Closed]
             g2 == [g1 EXCEPT !.PlayerFinalChoice = doorIndex,
                              !.Doors[doorIndex].State = Selected,
                              !.Phase = GameOver]
         IN Ret(calculateResult(g2), NoErr, <<GameOver>>)

\* slip: the guard lets a finished game through
MakeFinalChoice_GuardBeforeFinal(g, doorIndex) ==
    IF g.Phase < FinalChoice
    THEN Ret(g, ErrNotFinalPhase, <<>>)
    ELSE IF doorIndex < 0 \/ doorIndex >= SliceLen(g.Doors)
    THEN Ret(g, ErrOutOfRange, <<>>)
    ELSE IF IsOpen(g.Doors[doorIndex])
    THEN Ret(g, ErrOpenedDoor, <<>>)
    ELSE LET g1 == [g EXCEPT !.Doors[g.PlayerInitialChoice].State = Closed]
             g2 == [g1 EXCEPT !.PlayerFinalChoice = doorIndex,
                              !.Doors[doorIndex].State = Selected,
                              !.Phase = GameOver]
         IN Ret(calculateResult(g2), NoErr, <<GameOver>>)

MakeFinalChoice(g, doorIndex) ==
    IF g.Phase # FinalChoice
    THEN Ret(g, ErrNotFinalPhase, <<>>)
    ELSE IF doorIndex < 0 \/ doorIndex >= SliceLen(g.Doors)
    THEN Ret(g, ErrOutOfRange, <<>>)
    ELSE IF IsOpen(g.Doors[doorIndex])
    THEN Ret(g, ErrOpenedDoor, <<>>)
    ELSE LET g1 == [g EXCEPT !.Doors[g.PlayerInitialChoice].State = Closed]
             g2 == [g1 EXCEPT !.PlayerFinalChoice = doorIndex,
                              !.Doors[doorIndex].State = Selected,
                              !.Phase = GameOver]
         IN Ret(calculateResult(g2), NoErr, <<GameOver>>)

\* slip: the loop takes the first unopened door, the first pick included
SwitchChoice_FirstUnopened(g) ==
    IF g.Phase # FinalChoice
    THEN Ret(g, ErrNotFinalPhase, <<>>)
    ELSE LET targets == SelectSeq(Indices(SliceLen(g.Doors)),
                            LAMBDA i : ~IsOpen(g.Doors[i]))
         IN IF Len(targets) = 0
            THEN Ret(g, ErrNoSwitchDoor, <<>>)
            ELSE MakeFinalChoice(g, Head(targets))

SwitchChoice(g) ==
    IF g.Phase # FinalChoice
    THEN Ret(g, ErrNotFinalPhase, <<>>)
    ELSE LET targets == SelectSeq(Indices(SliceLen(g.Doors)),
                            LAMBDA i : ~IsOpen(g.Doors[i]) /\ i # g.PlayerInitialChoice)
         IN IF Len(targets) = 0
            THEN Ret(g, ErrNoSwitchDoor, <<>>)
            ELSE MakeFinalChoice(g, Head(targets))

\* slip: the final choice is made on the other unopened door
StayWithChoice_OtherDoor(g) == SwitchChoice(g)

StayWithChoice(g) == MakeFinalChoice(g, g.PlayerInitialChoice)

IsGameOver(g) == g.Phase = GameOver

\* ------------------------------------------------------------------------
\* Configuration (pkg/config): Config and its Manager
\* ------------------------------------------------------------------------

\* stats.ExportFormat
ExportJSON == 0
ExportCSV == 1
ExportText == 2

ErrInvalidColorScheme == "invalid color scheme"
ErrAnimationSpeed == "animation speed must be between 0 and 3"
ErrTerminalDimensions == "terminal dimensions cannot be negative"
ErrInvalidStrategy == "invalid default strategy"
ErrMaxHistorySize == "max history size cannot be negative"
ErrInvalidExportFormat == "invalid export format"
ErrInvalidConfiguration == "invalid configuration"
ErrSaveConfig == "failed to save updated config"

\* the fields of Config that Validate reads, and one it does not
DefaultConfig ==
    [UI |-> [ColorScheme |-> "default", AnimationSpeed |-> 2,
             TerminalWidth |-> 0, TerminalHeight |-> 0],
     Game |-> [DefaultStrategy |-> "ask"],
     Stats |-> [MaxHistorySize |-> 10000, ExportFormat |-> ExportJSON],
     Education |-> [ShowMath |-> FALSE]]

\* Config.Validate: the first complaint, nil when there is none
Validate(c) ==
    IF c.UI.ColorScheme \notin {"default", "high-contrast", "colorblind-safe"}
    THEN ErrInvalidColorScheme
    ELSE IF c.UI.AnimationSpeed < 0 \/ c.UI.AnimationSpeed > 3
    THEN ErrAnimationSpeed
    ELSE IF c.UI.TerminalWidth < 0 \/ c.UI.TerminalHeight < 0
    THEN ErrTerminalDimensions
    ELSE IF c.Game.DefaultStrategy \notin {"switch", "stay", "ask"}
    THEN ErrInvalidStrategy
    ELSE IF c.Stats.MaxHistorySize < 0
    THEN ErrMaxHistorySize
    ELSE IF c.Stats.ExportFormat \notin {ExportJSON, ExportCSV, ExportText}
    THEN ErrInvalidExportFormat
    ELSE NoErr

\* json.Marshal of a Config: the field values in the order of the struct
MarshalConfig(c) ==
    <<c.UI.ColorScheme, c.UI.AnimationSpeed, c.UI.TerminalWidth, c.UI.TerminalHeight,
      c.Game.DefaultStrategy, c.Stats.MaxHistorySize, c.Stats.ExportFormat,
      c.Education.ShowMath>>

\* json.Unmarshal into a Config
UnmarshalConfig(data) ==
    [UI |-> [ColorScheme |-> data[1], AnimationSpeed |-> data[2],
             TerminalWidth |-> data[3], TerminalHeight |-> data[4]],
     Game |-> [DefaultStrategy |-> data[5]],
     Stats |-> [MaxHistorySize |-> data[6], ExportFormat |-> data[7]],
     Education |-> [ShowMath |-> data[8]]]

\* Config.Clone: a copy made through JSON
Clone(c) == UnmarshalConfig(MarshalConfig(c))

\* Manager.Get
ManagerGet(cfg) == Clone(cfg)

\* Manager.Update on a manager holding cfg: validate, assign, save; saveOk
\* is whether the write of the config file succeeds
ManagerUpdate(cfg, newConfig, saveOk) ==
    IF Validate(newConfig) # NoErr
    THEN [config |-> cfg, err |-> ErrInvalidConfiguration]
    ELSE IF ~saveOk
    THEN [config |-> Clone(newConfig), err |-> ErrSaveConfig]
    ELSE [config |-> Clone(newConfig), err |-> NoErr]

\* Manager.UpdateUI: the section is assigned to m.config first, then Update
\* is called with a clone of the result
ManagerUpdateUI(cfg, uiConfig, saveOk) ==
    LET assigned == [cfg EXCEPT !.UI = uiConfig]
    IN ManagerUpdate(assigned, Clone(assigned), saveOk)

ManagerUpdateGame(cfg, gameConfig, saveOk) ==
    LET assigned == [cfg EXCEPT !.Game = gameConfig]
    IN ManagerUpdate(assigned, Clone(assigned), saveOk)

ManagerUpdateStats(cfg, statsConfig, saveOk) ==
    LET assigned == [cfg EXCEPT !.Stats = statsConfig]
    IN ManagerUpdate(assigned, Clone(assigned), saveOk)

ManagerUpdateEducation(cfg, educationConfig, saveOk) ==
    LET assigned == [cfg EXCEPT !.Education = educationConfig]
    IN ManagerUpdate(assigned, Clone(assigned), saveOk)

\* Manager.Reset
ManagerReset(cfg, saveOk) == ManagerUpdate(cfg, DefaultConfig, saveOk)

\* the sections a caller passes: valid ones and ones Validate refuses
UIConfigArgs ==
    [ColorScheme : {"default", "high-contrast", "invalid-scheme"},
     AnimationSpeed : {2, 4},
     TerminalWidth : {0},
     TerminalHeight : {0}]

GameConfigArgs == [DefaultStrategy : {"ask", "sometimes"}]

StatsConfigArgs == [MaxHistorySize : {10000, -1}, ExportFormat : {ExportJSON}]

EducationConfigArgs == [ShowMath : BOOLEAN]

ConfigArgs ==
    [UI : UIConfigArgs, Game : GameConfigArgs, Stats : StatsConfigArgs,
     Education : EducationConfigArgs]

\* ------------------------------------------------------------------------
\* The Manager among goroutines (pkg/config): its lock, its watchers, the
\* files Save writes, and where each goroutine is inside a method
\* ------------------------------------------------------------------------

ErrNotExist == "no such file or directory"
ErrParseConfig == "failed to parse config file"
ErrSaveConfigFile == "failed to save config file"

\* Config.ApplyDefaults on the fields modelled (ReducedMotion is false in
\* every Config here)
ApplyDefaults(c) ==
    [c EXCEPT !.UI.ColorScheme = IF @ = "" THEN DefaultConfig.UI.ColorScheme ELSE @,
              !.UI.AnimationSpeed = IF @ = 0 THEN DefaultConfig.UI.AnimationSpeed ELSE @,
              !.Game.DefaultStrategy =
                    IF @ = "" THEN DefaultConfig.Game.DefaultStrategy ELSE @,
              !.Stats.MaxHistorySize =
                    IF @ = 0 THEN DefaultConfig.Stats.MaxHistorySize ELSE @]

\* the goroutines that call the Manager's methods
Goroutines == {"g1", "g2"}
NoGoroutine == "none"

\* the configurations handed to Update: two that Validate accepts and one
\* it refuses
ManagerConfigArgs ==
    {DefaultConfig,
     [DefaultConfig EXCEPT !.UI.ColorScheme = "high-contrast"],
     [DefaultConfig EXCEPT !.UI.ColorScheme = "invalid-scheme"]}

\* files of the config directory: a path names an inode or nothing, an inode
\* holds the bytes written to it so far (none right after O_TRUNC)
Inodes == {"i1", "i2", "i3", "i4"}
NoFile == "none"
Truncated == << >>

\* json.Unmarshal accepts the bytes of a whole configuration only
IsCompleteFile(data) == Len(data) = Len(MarshalConfig(DefaultConfig))

\* the Manager NewManager returns: the default configuration in memory and
\* saved at configPath, no temporary file, no watcher, the lock free
NewManager ==
    [mutex |-> NoGoroutine,
     watchers |-> 0,
     configPath |-> "i1",
     tempPath |-> NoFile,
     files |-> [n \in Inodes |->
                    IF n = "i1" THEN MarshalConfig(DefaultConfig) ELSE Truncated],
     pc |-> [p \in Goroutines |-> "idle"],
     op |-> [p \in Goroutines |-> "none"],
     newConfig |-> [p \in Goroutines |-> DefaultConfig],
     data |-> [p \in Goroutines |-> Truncated],
     fd |-> [p \in Goroutines |-> NoFile],
     i |-> [p \in Goroutines |-> 0],
     err |-> [p \in Goroutines |-> NoErr],
     allUpdatesOk |-> TRUE]

\* the inodes a path or an open descriptor refers to
LinkedInodes(m) == {m.configPath, m.tempPath} \cup {m.fd[p] : p \in Goroutines}

\* an inode for a file that O_CREATE makes
FreeInode(m) == CHOOSE n \in Inodes : n \notin LinkedInodes(m)

\* the file system drops the bytes of an inode nothing refers to
DropUnlinked(m) ==
    [m EXCEPT !.files = [n \in Inodes |->
                            IF n \in LinkedInodes(m) THEN m.files[n] ELSE Truncated]]

\* the method of goroutine p returns err
MgrReturn(m, p, err) ==
    [m EXCEPT !.pc[p] = "idle",
              !.err[p] = err,
              !.newConfig[p] = DefaultConfig,
              !.data[p] = Truncated,
              !.i[p] = 0,
              !.allUpdatesOk = @ /\ m.op[p] = "Update" /\ err = NoErr]

\* ------------------------------------------------------------------------
\* State
\* ------------------------------------------------------------------------

VARIABLES
    Game,       \* the *Game a caller holds (the UI's m.Game): a game or NoGame
    call,       \* the last call made on Game directly: op, arg, err, phases
    ui,         \* the fields of ui.Model other than Game and StatsManager
    stats,      \* the GameStats held by the StatsManager's collector
    pending,    \* RevealDelayMsg ticks started and not yet delivered
    finished,   \* games that reached GameOver through the UI, per strategy
    program,    \* "running", "quit" after tea.Quit, "panic"
    config,     \* the Config held by the config Manager (m.config)
    mgr         \* the Manager's lock and watchers, the config files, and the
                \* goroutines inside its methods

gameVars == <<Game, call>>

uiVars == <<ui, stats, pending, finished, program, config, mgr>>

vars == <<Game, call, ui, stats, pending, finished, program, config, mgr>>

\* the door indices a caller passes
DoorArgs == (0 - ArgSlack)..(NumDoors - 1 + ArgSlack)

Called(op, arg, r) == [op |-> op, arg |-> arg, err |-> r.err, phases |-> r.phases]

\* ------------------------------------------------------------------------
\* Statistics (pkg/stats)
\* ------------------------------------------------------------------------

ErrNilResult == "game result cannot be nil"
ErrSaveFailed == "failed to write stats file"

EmptyStrategyStats == [GamesPlayed |-> 0, Wins |-> 0, Losses |-> 0]

\* a fresh GameStats; the history, daily, streak and time fields are not
\* modelled
EmptyStats ==
    [TotalGames |-> 0, TotalWins |-> 0, TotalLosses |-> 0,
     SwitchStats |-> EmptyStrategyStats, StayStats |-> EmptyStrategyStats]

createGameRecord(result) ==
    [Strategy |-> result.Strategy,
     Won |-> result.Won,
     InitialChoice |-> result.InitialChoice,
     FinalChoice |-> result.FinalChoice,
     CarPosition |-> result.CarPosition,
     HostOpenedDoor |-> result.HostOpenedDoor]

updateStrategyStats(ss, record) ==
    [ss EXCEPT !.GamesPlayed = @ + 1,
               !.Wins = IF record.Won THEN @ + 1 ELSE @,
               !.Losses = IF record.Won THEN @ ELSE @ + 1]

\* slip: a lost game is not counted in TotalLosses
updateAggregateStats_LossesUncounted(st, record) ==
    LET st1 == [st EXCEPT !.TotalGames = @ + 1,
                          !.TotalWins = IF record.Won THEN @ + 1 ELSE @]
    IN IF record.Strategy = Switch
       THEN [st1 EXCEPT !.SwitchStats = updateStrategyStats(@, record)]
       ELSE [st1 EXCEPT !.StayStats = updateStrategyStats(@, record)]

updateAggregateStats(st, record) ==
    LET st1 == [st EXCEPT !.TotalGames = @ + 1,
                          !.TotalWins = IF record.Won THEN @ + 1 ELSE @,
                          !.TotalLosses = IF record.Won THEN @ ELSE @ + 1]
    IN IF record.Strategy = Switch
       THEN [st1 EXCEPT !.SwitchStats = updateStrategyStats(@, record)]
       ELSE [st1 EXCEPT !.StayStats = updateStrategyStats(@, record)]

\* Collector.RecordGame
CollectorRecordGame(st, result) ==
    IF result = NoResult
    THEN [stats |-> st, err |-> ErrNilResult]
    ELSE [stats |-> updateAggregateStats(st, createGameRecord(result)), err |-> NoErr]

\* StatsManager.RecordGame: record, then save; saveOk is whether the write of
\* the stats file succeeds
StatsManagerRecordGame(st, result, saveOk) ==
    LET r == CollectorRecordGame(st, result)
    IN IF r.err # NoErr THEN r
       ELSE [stats |-> r.stats, err |-> IF saveOk THEN NoErr ELSE ErrSaveFailed]

\* StatsManager.Reset: a fresh GameStats, then save
StatsManagerReset(st, saveOk) ==
    [stats |-> EmptyStats, err |-> IF saveOk THEN NoErr ELSE ErrSaveFailed]

\* ------------------------------------------------------------------------
\* Terminal UI (pkg/ui): Model and its Update
\* ------------------------------------------------------------------------

\* ViewState
MainMenuView == "MainMenuView"
GameView == "GameView"
StatsView == "StatsView"

\* key bindings
KeyUp == "up"
KeyDown == "down"
KeyLeft == "left"
KeyRight == "right"
KeyEnter == "enter"
KeyEscape == "esc"
KeyQ == "q"
KeyH == "h"
KeyR == "r"
KeyS == "s"
KeyE == "e"
Key1 == "1"
Key2 == "2"
Key3 == "3"
KeyCtrlC == "ctrl+c"
KeyBackspace == "backspace"

\* the keys a user presses; the aliases k, j, l of the arrows and ctrl+c,
\* which quits from anywhere, are left to the handlers below
Keys ==
    {KeyUp, KeyDown, KeyLeft, KeyRight, KeyEnter, KeyEscape, KeyQ, KeyH, KeyR,
     KeyS, KeyE, Key1, Key2, Key3, KeyBackspace}

\* the number of entries of the main menu: Play, Stats, Help, Exit
MaxMenuOptions == 4

MaxStatsPages == 1

\* the number of digits of the reset confirmation
NumConfirmDigits == 4

\* each confirmation digit is SecureIntn(9) + 1
NumConfirmChoices == 9

MsgCannotSelect == "Cannot select this door"
MsgInvalidConfirmation == "invalid confirmation numbers"
MsgResetDone == "Statistics reset successfully!"
MsgExportDone == "Statistics exported"
MsgExportFailed == "export statistics failed"

ZeroDigits == [k \in 1..NumConfirmDigits |-> 0]

\* msg.String()[0] - '0' for the keys "1".."9"
DigitOfKey(key) ==
    CASE key = "1" -> 1 [] key = "2" -> 2 [] key = "3" -> 3
      [] key = "4" -> 4 [] key = "5" -> 5 [] key = "6" -> 6
      [] key = "7" -> 7 [] key = "8" -> 8 [] key = "9" -> 9

DigitKeys == {"1", "2", "3", "4", "5", "6", "7", "8", "9"}

\* NewModel
NewModelUI ==
    [CurrentView |-> MainMenuView,
     MenuCursor |-> 0,
     DoorCursor |-> 0,
     ShowHelp |-> FALSE,
     ErrorMessage |-> "",
     SuccessMessage |-> "",
     ShowResult |-> FALSE,
     StatsPage |-> 0,
     IsRevealing |-> FALSE,
     ShowResetConfirmation |-> FALSE,
     ResetConfirmationNumbers |-> ZeroDigits,
     UserInputNumbers |-> ZeroDigits,
     CurrentInputIndex |-> 0]

\* what Update returns: the model and the command (none, quit, tick)
Out(M, cmd) == [M |-> M, cmd |-> cmd]

\* slip: in FinalChoice every door index in range is selectable
isDoorSelectable_OpenedDoorToo(M, doorIndex) ==
    IF M.Game = NoGame THEN FALSE
    ELSE IF M.ui.IsRevealing THEN FALSE
    ELSE CASE M.Game.Phase = InitialChoice -> doorIndex >= 0 /\ doorIndex < NumDoors
           [] M.Game.Phase = HostReveal -> FALSE
           [] M.Game.Phase = FinalChoice -> doorIndex >= 0 /\ doorIndex < NumDoors
           [] M.Game.Phase = GameOver -> FALSE
           [] OTHER -> FALSE

isDoorSelectable(M, doorIndex) ==
    IF M.Game = NoGame THEN FALSE
    ELSE IF M.ui.IsRevealing THEN FALSE
    ELSE CASE M.Game.Phase = InitialChoice -> doorIndex >= 0 /\ doorIndex < NumDoors
           [] M.Game.Phase = HostReveal -> FALSE
           [] M.Game.Phase = FinalChoice -> doorIndex # M.Game.HostOpenedDoor
           [] M.Game.Phase = GameOver -> FALSE
           [] OTHER -> FALSE

getSelectableDoors(M) ==
    IF M.Game = NoGame THEN <<>>
    ELSE SelectSeq(Indices(NumDoors), LAMBDA i : isDoorSelectable(M, i))

\* the position of the cursor in the selectable doors (0-based), -1 if absent
CursorIndex(selectableDoors, cursor) ==
    LET hits == {k \in 1..Len(selectableDoors) : selectableDoors[k] = cursor}
    IN IF hits = {} THEN -1
       ELSE (CHOOSE k \in hits : \A j \in hits : k <= j) - 1

moveCursorLeft(M) ==
    LET selectableDoors == getSelectableDoors(M)
        currentIndex == CursorIndex(selectableDoors, M.ui.DoorCursor)
    IN IF Len(selectableDoors) = 0 THEN M
       ELSE IF currentIndex > 0
       THEN [M EXCEPT !.ui.DoorCursor = selectableDoors[currentIndex]]
       ELSE IF currentIndex = 0
       THEN [M EXCEPT !.ui.DoorCursor = selectableDoors[Len(selectableDoors)]]
       ELSE [M EXCEPT !.ui.DoorCursor = selectableDoors[1]]

moveCursorRight(M) ==
    LET selectableDoors == getSelectableDoors(M)
        currentIndex == CursorIndex(selectableDoors, M.ui.DoorCursor)
    IN IF Len(selectableDoors) = 0 THEN M
       ELSE IF currentIndex >= 0 /\ currentIndex < Len(selectableDoors) - 1
       THEN [M EXCEPT !.ui.DoorCursor = selectableDoors[currentIndex + 2]]
       ELSE [M EXCEPT !.ui.DoorCursor = selectableDoors[1]]

\* startRevealDelay: IsRevealing, and a tick that delivers RevealDelayMsg
startRevealDelay(M) == Out([M EXCEPT !.ui.IsRevealing = TRUE], "tick")

\* the three places that start a game: a new game, cursor on door 0, no result
StartNewGame(M, env) ==
    [M EXCEPT !.Game = NewGame(env.car),
              !.ui.DoorCursor = 0,
              !.ui.ShowResult = FALSE]

selectDoor(M, env) ==
    IF M.Game = NoGame THEN Out(M, "none")
    ELSE IF ~isDoorSelectable(M, M.ui.DoorCursor)
    THEN Out([M EXCEPT !.ui.ErrorMessage = MsgCannotSelect], "none")
    ELSE IF M.Game.Phase = InitialChoice
    THEN LET r == MakeInitialChoice(M.Game, M.ui.DoorCursor, env.draw)
         IN Out([M EXCEPT !.Game = r.game,
                          !.ui.ErrorMessage = IF r.err # NoErr THEN r.err ELSE @],
                "none")
    ELSE IF M.Game.Phase = FinalChoice
    THEN LET r == MakeFinalChoice(M.Game, M.ui.DoorCursor)
         IN IF r.err # NoErr
            THEN Out([M EXCEPT !.Game = r.game, !.ui.ErrorMessage = r.err], "none")
            ELSE startRevealDelay([M EXCEPT !.Game = r.game])
    ELSE Out(M, "none")

switchChoice(M) ==
    IF M.Game = NoGame \/ M.Game.Phase # FinalChoice THEN Out(M, "none")
    ELSE LET r == SwitchChoice(M.Game)
         IN IF r.err # NoErr
            THEN Out([M EXCEPT !.Game = r.game, !.ui.ErrorMessage = r.err], "none")
            ELSE startRevealDelay([M EXCEPT !.Game = r.game])

executeMenuAction(M, env) ==
    CASE M.ui.MenuCursor = 0 ->
            Out([StartNewGame(M, env) EXCEPT !.ui.CurrentView = GameView], "none")
      [] M.ui.MenuCursor = 1 ->
            Out([M EXCEPT !.ui.CurrentView = StatsView, !.ui.StatsPage = 0], "none")
      [] M.ui.MenuCursor = 2 ->
            Out([M EXCEPT !.ui.ShowHelp = TRUE], "none")
      [] M.ui.MenuCursor = 3 -> Out(M, "quit")
      [] OTHER -> Out(M, "none")

handleMainMenuKeys(M, key, env) ==
    CASE key \in {KeyUp, "k"} ->
            Out(IF M.ui.MenuCursor > 0 THEN [M EXCEPT !.ui.MenuCursor = @ - 1] ELSE M, "none")
      [] key \in {KeyDown, "j"} ->
            Out(IF M.ui.MenuCursor < MaxMenuOptions - 1
                THEN [M EXCEPT !.ui.MenuCursor = @ + 1] ELSE M, "none")
      [] key = KeyEnter -> executeMenuAction(M, env)
      [] OTHER -> Out(M, "none")

handleGameKeys(M, key, env) ==
    IF M.Game = NoGame THEN Out(M, "none")
    ELSE CASE key \in {KeyLeft, "h"} -> Out(moveCursorLeft(M), "none")
           [] key \in {KeyRight, "l"} -> Out(moveCursorRight(M), "none")
           [] key = Key1 ->
                Out(IF isDoorSelectable(M, 0) THEN [M EXCEPT !.ui.DoorCursor = 0] ELSE M, "none")
           [] key = Key2 ->
                Out(IF isDoorSelectable(M, 1) THEN [M EXCEPT !.ui.DoorCursor = 1] ELSE M, "none")
           [] key = Key3 ->
                Out(IF isDoorSelectable(M, 2) THEN [M EXCEPT !.ui.DoorCursor = 2] ELSE M, "none")
           [] key = KeyEnter ->
                IF IsGameOver(M.Game) THEN Out(StartNewGame(M, env), "none")
                ELSE selectDoor(M, env)
           [] key = KeyS ->
                IF M.Game.Phase = FinalChoice THEN switchChoice(M)
                ELSE Out([M EXCEPT !.ui.CurrentView = StatsView], "none")
           [] key = KeyR ->
                IF IsGameOver(M.Game) THEN Out(StartNewGame(M, env), "none")
                ELSE Out(M, "none")
           [] OTHER -> Out(M, "none")

\* confirmResetStats: four fresh digits, the input cleared, the dialog shown
confirmResetStats(M, env) ==
    Out([M EXCEPT !.ui.ResetConfirmationNumbers =
                        [i \in 1..NumConfirmDigits |->
                            SecureIntn(NumConfirmChoices, env.digitDraws[i]) + 1],
                  !.ui.UserInputNumbers = ZeroDigits,
                  !.ui.CurrentInputIndex = 0,
                  !.ui.ShowResetConfirmation = TRUE], "none")

exportStats(M, env) ==
    Out(IF env.ioOk THEN [M EXCEPT !.ui.SuccessMessage = MsgExportDone]
        ELSE [M EXCEPT !.ui.ErrorMessage = MsgExportFailed], "none")

handleStatsKeys(M, key, env) ==
    CASE key \in {KeyLeft, "h"} ->
            Out(IF M.ui.StatsPage > 0 THEN [M EXCEPT !.ui.StatsPage = @ - 1] ELSE M, "none")
      [] key \in {KeyRight, "l"} ->
            Out(IF M.ui.StatsPage < MaxStatsPages - 1
                THEN [M EXCEPT !.ui.StatsPage = @ + 1] ELSE M, "none")
      [] key = KeyEnter ->
            Out([StartNewGame(M, env) EXCEPT !.ui.CurrentView = GameView], "none")
      [] key = KeyR -> confirmResetStats(M, env)
      [] key = KeyE -> exportStats(M, env)
      [] key = KeyQ ->
            Out([M EXCEPT !.ui.CurrentView = MainMenuView, !.ui.MenuCursor = 0], "none")
      [] OTHER -> Out(M, "none")

\* slip: only the first digit is compared
validateAndResetStats_FirstDigitOnly(M, env) ==
    IF M.ui.UserInputNumbers[1] # M.ui.ResetConfirmationNumbers[1]
    THEN Out([M EXCEPT !.ui.ErrorMessage = MsgInvalidConfirmation,
                       !.ui.CurrentInputIndex = 0,
                       !.ui.UserInputNumbers = ZeroDigits], "none")
    ELSE LET r == StatsManagerReset(M.stats, env.ioOk)
         IN Out([M EXCEPT !.stats = r.stats,
                          !.ui.ErrorMessage = IF r.err # NoErr THEN r.err ELSE @,
                          !.ui.SuccessMessage = IF r.err # NoErr THEN @ ELSE MsgResetDone,
                          !.ui.ShowResetConfirmation = FALSE,
                          !.ui.CurrentInputIndex = 0,
                          !.ui.UserInputNumbers = ZeroDigits], "none")

validateAndResetStats(M, env) ==
    IF \E i \in 1..NumConfirmDigits :
            M.ui.UserInputNumbers[i] # M.ui.ResetConfirmationNumbers[i]
    THEN Out([M EXCEPT !.ui.ErrorMessage = MsgInvalidConfirmation,
                       !.ui.CurrentInputIndex = 0,
                       !.ui.UserInputNumbers = ZeroDigits], "none")
    ELSE LET r == StatsManagerReset(M.stats, env.ioOk)
         IN Out([M EXCEPT !.stats = r.stats,
                          !.ui.ErrorMessage = IF r.err # NoErr THEN r.err ELSE @,
                          !.ui.SuccessMessage = IF r.err # NoErr THEN @ ELSE MsgResetDone,
                          !.ui.ShowResetConfirmation = FALSE,
                          !.ui.CurrentInputIndex = 0,
                          !.ui.UserInputNumbers = ZeroDigits], "none")

handleResetConfirmationKeys(M, key, env) ==
    CASE key = KeyEscape ->
            Out([M EXCEPT !.ui.ShowResetConfirmation = FALSE,
                          !.ui.CurrentInputIndex = 0,
                          !.ui.UserInputNumbers = ZeroDigits], "none")
      [] key = KeyBackspace ->
            Out(IF M.ui.CurrentInputIndex > 0
                THEN [M EXCEPT !.ui.CurrentInputIndex = @ - 1,
                               !.ui.UserInputNumbers[M.ui.CurrentInputIndex] = 0]
                ELSE M, "none")
      [] key \in DigitKeys ->
            IF M.ui.CurrentInputIndex < NumConfirmDigits
            THEN LET M1 == [M EXCEPT !.ui.UserInputNumbers[M.ui.CurrentInputIndex + 1] =
                                            DigitOfKey(key),
                                     !.ui.CurrentInputIndex = @ + 1]
                 IN IF M1.ui.CurrentInputIndex >= NumConfirmDigits
                    THEN validateAndResetStats(M1, env)
                    ELSE Out(M1, "none")
            ELSE Out(M, "none")
      [] key = KeyEnter ->
            IF M.ui.CurrentInputIndex >= NumConfirmDigits
            THEN validateAndResetStats(M, env)
            ELSE Out(M, "none")
      [] OTHER -> Out(M, "none")

\* the view-specific bindings at the end of handleKeyPress
handleViewKeys(M, key, env) ==
    CASE M.ui.CurrentView = MainMenuView -> handleMainMenuKeys(M, key, env)
      [] M.ui.CurrentView = GameView -> handleGameKeys(M, key, env)
      [] M.ui.CurrentView = StatsView -> handleStatsKeys(M, key, env)
      [] OTHER -> Out(M, "none")

\* slip: q quits wherever it is pressed
handleKeyPress_QAlwaysQuits(M0, key, env) ==
    LET M == [M0 EXCEPT !.ui.ErrorMessage = "", !.ui.SuccessMessage = ""]
    IN IF M.ui.ShowResetConfirmation THEN handleResetConfirmationKeys(M, key, env)
       ELSE CASE key = KeyCtrlC -> Out(M, "quit")
              [] key = KeyQ -> Out(M, "quit")
              [] key = KeyH -> Out([M EXCEPT !.ui.ShowHelp = ~@], "none")
              [] key = KeyEscape ->
                    IF M.ui.ShowHelp THEN Out([M EXCEPT !.ui.ShowHelp = FALSE], "none")
                    ELSE IF M.ui.CurrentView # MainMenuView
                    THEN Out([M EXCEPT !.ui.CurrentView = MainMenuView,
                                       !.ui.MenuCursor = 0], "none")
                    ELSE handleViewKeys(M, key, env)
              [] OTHER -> handleViewKeys(M, key, env)

handleKeyPress(M0, key, env) ==
    LET M == [M0 EXCEPT !.ui.ErrorMessage = "", !.ui.SuccessMessage = ""]
    IN IF M.ui.ShowResetConfirmation THEN handleResetConfirmationKeys(M, key, env)
       ELSE CASE key = KeyCtrlC -> Out(M, "quit")
              [] key = KeyQ ->
                    IF M.ui.ShowHelp THEN Out([M EXCEPT !.ui.ShowHelp = FALSE], "none")
                    ELSE IF M.ui.CurrentView = MainMenuView THEN Out(M, "quit")
                    ELSE Out([M EXCEPT !.ui.CurrentView = MainMenuView,
                                       !.ui.MenuCursor = 0], "none")
              [] key = KeyH -> Out([M EXCEPT !.ui.ShowHelp = ~@], "none")
              [] key = KeyEscape ->
                    IF M.ui.ShowHelp THEN Out([M EXCEPT !.ui.ShowHelp = FALSE], "none")
                    ELSE IF M.ui.CurrentView # MainMenuView
                    THEN Out([M EXCEPT !.ui.CurrentView = MainMenuView,
                                       !.ui.MenuCursor = 0], "none")
                    ELSE handleViewKeys(M, key, env)
              [] OTHER -> handleViewKeys(M, key, env)

\* Update for a RevealDelayMsg; on a nil Game the dereference panics
UpdateRevealDelay(M0, env) ==
    LET M == [M0 EXCEPT !.ui.IsRevealing = FALSE, !.ui.ShowResult = TRUE]
    IN IF M.Game = NoGame THEN Out(M, "panic")
       ELSE IF M.Game.Result # NoResult
       THEN LET r == StatsManagerRecordGame(M.stats, M.Game.Result, env.ioOk)
            IN Out([M EXCEPT !.stats = r.stats,
                             !.ui.ErrorMessage = IF r.err # NoErr THEN r.err ELSE @],
                   "none")
       ELSE Out(M, "none")

\* ------------------------------------------------------------------------
\* Door numbers as shown and exported
\* ------------------------------------------------------------------------

\* nothing of a finished game on the screen
NoSummary == [shown |-> FALSE]

\* Model.renderGame, its game-over summary only: the two door numbers of
\* "You initially chose door %d" and "The host opened door %d"
renderGame(M) ==
    IF M.Game = NoGame THEN NoSummary
    ELSE IF M.ui.IsRevealing THEN NoSummary
    ELSE IF M.Game.Phase = GameOver /\ M.Game.Result # NoResult
    THEN [shown |-> TRUE,
          InitialChoice |-> M.Game.Result.InitialChoice + 1,
          HostOpenedDoor |-> M.Game.Result.HostOpenedDoor + 1]
    ELSE NoSummary

\* Model.View, as far as the game-over summary goes
View(M) ==
    IF M.ui.ShowHelp THEN NoSummary
    ELSE IF M.ui.CurrentView = GameView THEN renderGame(M)
    ELSE NoSummary

\* the four door columns of the row exportCSV writes for a GameRecord
exportCSV(gameRecord) ==
    [InitialChoice |-> gameRecord.InitialChoice + 1,
     FinalChoice |-> gameRecord.FinalChoice + 1,
     CarPosition |-> gameRecord.CarPosition + 1,
     HostOpenedDoor |-> gameRecord.HostOpenedDoor + 1]

\* the "Door %d->%d" of the line exportText writes for a GameRecord
exportText(gameRecord) ==
    [InitialChoice |-> gameRecord.InitialChoice + 1,
     FinalChoice |-> gameRecord.FinalChoice + 1]

\* ------------------------------------------------------------------------
\* The environment of one Update: what the random sources and the disk do
\* ------------------------------------------------------------------------

\* the handler that handleKeyPress hands the key to
Route(M, key) ==
    IF M.ui.ShowResetConfirmation THEN "reset"
    ELSE IF key \in {KeyCtrlC, KeyQ, KeyH} THEN "global"
    ELSE IF key = KeyEscape /\ (M.ui.ShowHelp \/ M.ui.CurrentView # MainMenuView)
    THEN "global"
    ELSE CASE M.ui.CurrentView = MainMenuView -> "menu"
           [] M.ui.CurrentView = GameView -> "game"
           [] M.ui.CurrentView = StatsView -> "stats"
           [] OTHER -> "none"

\* the draws of the confirmation digits that are enumerated: the dialog
\* always shows 1 1 1 1, and the user's keys 1, 2, 3 match it or not
ConfirmDraws == {0}

AllEnvs ==
    [car : 0..(NumDoors - 1),
     draw : RandomDraws,
     digitDraws : [1..NumConfirmDigits -> ConfirmDraws],
     ioOk : BOOLEAN]

DefaultEnv ==
    [car |-> 0, draw |-> 0, digitDraws |-> [k \in 1..NumConfirmDigits |-> 0], ioOk |-> TRUE]

\* the environments that can make a difference to the handling of key: a
\* new game draws the car, an initial choice the host's tie-break, the reset
\* dialog its digits; saving and exporting touch the disk
Envs(M, key) ==
    LET route == Route(M, key)
        cars == IF route \in {"menu", "game", "stats"} /\ key \in {KeyEnter, KeyR}
                THEN 0..(NumDoors - 1) ELSE {DefaultEnv.car}
        draws == IF route = "game" /\ key = KeyEnter
                 THEN RandomDraws ELSE {DefaultEnv.draw}
        digits == IF route = "stats" /\ key = KeyR
                  THEN [1..NumConfirmDigits -> ConfirmDraws] ELSE {DefaultEnv.digitDraws}
        ios == IF (route = "reset" /\ key \in DigitKeys \cup {KeyEnter})
                    \/ (route = "stats" /\ key = KeyE)
               THEN BOOLEAN ELSE {DefaultEnv.ioOk}
    IN [car : cars, draw : draws, digitDraws : digits, ioOk : ios]

\* ------------------------------------------------------------------------
\* The state after NewModel
\* ------------------------------------------------------------------------

NoFinished == [s \in {Stay, Switch} |-> 0]

UIInit ==
    /\ ui = NewModelUI
    /\ stats = EmptyStats
    /\ pending = 0
    /\ finished = NoFinished
    /\ program = "running"
    /\ config = DefaultConfig
    /\ mgr = NewManager

\* ------------------------------------------------------------------------
\* The game driven directly through its methods
\* ------------------------------------------------------------------------

Init ==
    /\ \E carPosition \in 0..(NumDoors - 1) : Game = NewGame(carPosition)
    /\ call = [op |-> "NewGame", arg |-> -1, err |-> NoErr,
               phases |-> <<Setup, InitialChoice>>]
    /\ UIInit

DoMakeInitialChoice ==
    \E doorIndex \in DoorArgs, draw \in RandomDraws :
        LET r == MakeInitialChoice(Game, doorIndex, draw)
        IN /\ Game' = r.game
           /\ call' = Called("MakeInitialChoice", doorIndex, r)
           /\ UNCHANGED uiVars

DoMakeFinalChoice ==
    \E doorIndex \in DoorArgs :
        LET r == MakeFinalChoice(Game, doorIndex)
        IN /\ Game' = r.game
           /\ call' = Called("MakeFinalChoice", doorIndex, r)
           /\ UNCHANGED uiVars

DoSwitchChoice ==
    LET r == SwitchChoice(Game)
    IN /\ Game' = r.game
       /\ call' = Called("SwitchChoice", -1, r)
       /\ UNCHANGED uiVars

DoStayWithChoice ==
    LET r == StayWithChoice(Game)
    IN /\ Game' = r.game
       /\ call' = Called("StayWithChoice", -1, r)
       /\ UNCHANGED uiVars

\* Game.Reset: *g = *NewGame()
DoReset ==
    \E carPosition \in 0..(NumDoors - 1) :
        /\ Game' = NewGame(carPosition)
        /\ call' = [op |-> "Reset", arg |-> -1, err |-> NoErr,
                    phases |-> <<Setup, InitialChoice>>]
        /\ UNCHANGED uiVars

Next ==
    \/ DoMakeInitialChoice
    \/ DoMakeFinalChoice
    \/ DoSwitchChoice
    \/ DoStayWithChoice
    \/ DoReset

Spec == Init /\ [][Next]_vars

\* ------------------------------------------------------------------------
\* The random sources: Intn on its own, and the two draws of a game
\* ------------------------------------------------------------------------

InitRandom ==
    /\ Game = NoGame
    /\ call = [op |-> "NewSecureRandom", arg |-> -1, cryptoOk |-> TRUE, ret |-> 0]
    /\ UIInit

RandIntn ==
    \E n \in IntnArgs, cryptoOk \in BOOLEAN,
       secureDraw \in SourceDraws, fallbackDraw \in SourceDraws :
        /\ call' = [op |-> "Intn", arg |-> n, cryptoOk |-> cryptoOk,
                    ret |-> SecureRandomIntn(n, cryptoOk, secureDraw, fallbackDraw)]
        /\ UNCHANGED <<Game, uiVars>>

RandSecureIntn ==
    \E n \in IntnArgs, cryptoOk \in BOOLEAN, draw \in SourceDraws :
        /\ call' = [op |-> "SecureIntn", arg |-> n, cryptoOk |-> cryptoOk,
                    ret |-> SecureIntn(n, draw)]
        /\ UNCHANGED <<Game, uiVars>>

\* NewGame, the outcomes of both generators at that moment on record
RandNewGame ==
    \E cryptoOk \in BOOLEAN, secureDraw \in RandomDraws, seededDraw \in RandomDraws :
        /\ Game' = NewGame(RandomCarPosition(seededDraw))
        /\ call' = [op |-> "NewGame", arg |-> -1, cryptoOk |-> cryptoOk,
                    secureDraw |-> secureDraw, seededDraw |-> seededDraw,
                    ret |-> RandomCarPosition(seededDraw)]
        /\ UNCHANGED uiVars

\* MakeInitialChoice, the host's tie-break drawn through SecureIntn
RandMakeInitialChoice ==
    /\ Game # NoGame
    /\ \E doorIndex \in 0..(NumDoors - 1), cryptoOk \in BOOLEAN,
          secureDraw \in RandomDraws, seededDraw \in RandomDraws :
            LET r == MakeInitialChoice(Game, doorIndex,
                        IF cryptoOk THEN secureDraw ELSE seededDraw)
            IN /\ Game' = r.game
               /\ call' = [op |-> "MakeInitialChoice", arg |-> doorIndex,
                           err |-> r.err,
                           cryptoOk |-> cryptoOk, secureDraw |-> secureDraw,
                           seededDraw |-> seededDraw, ret |-> r.game.HostOpenedDoor]
               /\ UNCHANGED uiVars

NextRandom ==
    \/ RandIntn
    \/ RandSecureIntn
    \/ RandNewGame
    \/ RandMakeInitialChoice

SpecRandom == InitRandom /\ [][NextRandom]_vars

\* ------------------------------------------------------------------------
\* The configuration manager driven through its update methods
\* ------------------------------------------------------------------------

\* the record of one update call: whether its argument was one Validate
\* refuses, the error returned, and what Get returned before the call
Updated(op, invalid, r) ==
    [op |-> op, invalid |-> invalid, err |-> r.err, before |-> ManagerGet(config)]

\* the section is one Validate refuses in an otherwise default Config
InvalidSection(c) == Validate(c) # NoErr

InitConfig ==
    /\ Game = NoGame
    /\ call = [op |-> "NewManager", invalid |-> FALSE, err |-> NoErr,
               before |-> DefaultConfig]
    /\ UIInit

CfgUpdate ==
    \E newConfig \in ConfigArgs, saveOk \in BOOLEAN :
        LET r == ManagerUpdate(config, newConfig, saveOk)
        IN /\ config' = r.config
           /\ call' = Updated("Update", InvalidSection(newConfig), r)
           /\ UNCHANGED <<Game, ui, stats, pending, finished, program, mgr>>

CfgUpdateUI ==
    \E uiConfig \in UIConfigArgs, saveOk \in BOOLEAN :
        LET r == ManagerUpdateUI(config, uiConfig, saveOk)
        IN /\ config' = r.config
           /\ call' = Updated("UpdateUI",
                        InvalidSection([DefaultConfig EXCEPT !.UI = uiConfig]), r)
           /\ UNCHANGED <<Game, ui, stats, pending, finished, program, mgr>>

CfgUpdateGame ==
    \E gameConfig \in GameConfigArgs, saveOk \in BOOLEAN :
        LET r == ManagerUpdateGame(config, gameConfig, saveOk)
        IN /\ config' = r.config
           /\ call' = Updated("UpdateGame",
                        InvalidSection([DefaultConfig EXCEPT !.Game = gameConfig]), r)
           /\ UNCHANGED <<Game, ui, stats, pending, finished, program, mgr>>

CfgUpdateStats ==
    \E statsConfig \in StatsConfigArgs, saveOk \in BOOLEAN :
        LET r == ManagerUpdateStats(config, statsConfig, saveOk)
        IN /\ config' = r.config
           /\ call' = Updated("UpdateStats",
                        InvalidSection([DefaultConfig EXCEPT !.Stats = statsConfig]), r)
           /\ UNCHANGED <<Game, ui, stats, pending, finished, program, mgr>>

CfgUpdateEducation ==
    \E educationConfig \in EducationConfigArgs, saveOk \in BOOLEAN :
        LET r == ManagerUpdateEducation(config, educationConfig, saveOk)
        IN /\ config' = r.config
           /\ call' = Updated("UpdateEducation",
                        InvalidSection([DefaultConfig EXCEPT !.Education = educationConfig]), r)
           /\ UNCHANGED <<Game, ui, stats, pending, finished, program, mgr>>

CfgReset ==
    \E saveOk \in BOOLEAN :
        LET r == ManagerReset(config, saveOk)
        IN /\ config' = r.config
           /\ call' = Updated("Reset", FALSE, r)
           /\ UNCHANGED <<Game, ui, stats, pending, finished, program, mgr>>

NextConfig ==
    \/ CfgUpdate
    \/ CfgUpdateUI
    \/ CfgUpdateGame
    \/ CfgUpdateStats
    \/ CfgUpdateEducation
    \/ CfgReset

SpecConfig == InitConfig /\ [][NextConfig]_vars

\* ------------------------------------------------------------------------
\* The configuration manager called from several goroutines at once: each
\* step is one lock section or one system call of Update, Save or Load
\* ------------------------------------------------------------------------

InitManager ==
    /\ Game = NoGame
    /\ call = [op |-> "NewManager", invalid |-> FALSE, err |-> NoErr,
               before |-> DefaultConfig]
    /\ UIInit

mgrFrame == <<Game, call, ui, stats, pending, finished, program>>

\* a goroutine calls Update(newConfig), Save() or Load()
MgrCall ==
    \E p \in Goroutines, op \in {"Update", "Save", "Load"},
       newConfig \in ManagerConfigArgs :
        /\ mgr.pc[p] = "idle"
        /\ op # "Update" => newConfig = DefaultConfig
        /\ mgr' = [mgr EXCEPT !.pc[p] = op,
                              !.op[p] = op,
                              !.newConfig[p] = newConfig,
                              !.err[p] = NoErr,
                              !.allUpdatesOk = @ /\ op = "Update"]
        /\ UNCHANGED <<config, mgrFrame>>

\* AddWatcher registers a watcher whose callback calls Get
MgrAddWatcher ==
    /\ mgr.watchers < MaxWatchers
    /\ mgr.mutex = NoGoroutine
    /\ mgr' = [mgr EXCEPT !.watchers = @ + 1]
    /\ UNCHANGED <<config, mgrFrame>>

\* Update: Validate, then m.config = newConfig.Clone() under the lock
UpdateAssign ==
    \E p \in Goroutines :
        /\ mgr.pc[p] = "Update"
        /\ IF Validate(mgr.newConfig[p]) # NoErr
           THEN /\ mgr' = MgrReturn(mgr, p, ErrInvalidConfiguration)
                /\ UNCHANGED config
           ELSE /\ mgr.mutex = NoGoroutine
                /\ config' = Clone(mgr.newConfig[p])
                /\ mgr' = [mgr EXCEPT !.pc[p] = "Save"]
        /\ UNCHANGED mgrFrame

\* Save: m.config.Clone() under the read lock, marshalled
SaveClone ==
    \E p \in Goroutines :
        /\ mgr.pc[p] = "Save"
        /\ mgr.mutex = NoGoroutine
        /\ mgr' = [mgr EXCEPT !.pc[p] = "OpenTemp",
                              !.data[p] = MarshalConfig(Clone(config))]
        /\ UNCHANGED <<config, mgrFrame>>

\* os.WriteFile(tempPath) opens with O_CREATE|O_TRUNC: the file at tempPath
\* is emptied, or made if there is none
SaveOpenTemp ==
    \E p \in Goroutines :
        /\ mgr.pc[p] = "OpenTemp"
        /\ LET n == IF mgr.tempPath = NoFile THEN FreeInode(mgr) ELSE mgr.tempPath
           IN mgr' = [mgr EXCEPT !.pc[p] = "WriteTemp",
                                 !.tempPath = n,
                                 !.fd[p] = n,
                                 !.files[n] = Truncated]
        /\ UNCHANGED <<config, mgrFrame>>

\* os.WriteFile writes the bytes to the file it opened and closes it
SaveWriteTemp ==
    \E p \in Goroutines :
        /\ mgr.pc[p] = "WriteTemp"
        /\ mgr' = DropUnlinked([mgr EXCEPT !.pc[p] = "Rename",
                                           !.files[mgr.fd[p]] = mgr.data[p],
                                           !.fd[p] = NoFile])
        /\ UNCHANGED <<config, mgrFrame>>

\* os.Rename(tempPath, configPath); on success Save returns nil: a Save
\* called by Update goes on to notify the watchers
SaveRename ==
    \E p \in Goroutines :
        /\ mgr.pc[p] = "Rename"
        /\ mgr' = IF mgr.tempPath = NoFile
                  THEN [mgr EXCEPT !.pc[p] = "RemoveTemp"]
                  ELSE LET renamed == DropUnlinked([mgr EXCEPT !.configPath = mgr.tempPath,
                                                               !.tempPath = NoFile])
                       IN IF mgr.op[p] = "Update"
                          THEN [renamed EXCEPT !.pc[p] = "Notify", !.i[p] = 0]
                          ELSE MgrReturn(renamed, p, NoErr)
        /\ UNCHANGED <<config, mgrFrame>>

\* the rename failed: os.Remove(tempPath), and Save's error is returned
SaveRemoveTemp ==
    \E p \in Goroutines :
        /\ mgr.pc[p] = "RemoveTemp"
        /\ mgr' = MgrReturn(DropUnlinked([mgr EXCEPT !.tempPath = NoFile]), p,
                            IF mgr.op[p] = "Update"
                            THEN ErrSaveConfig ELSE ErrSaveConfigFile)
        /\ UNCHANGED <<config, mgrFrame>>

\* the loop over m.watchers of Update and of Load: the next watcher runs and
\* calls Get, which takes the read lock; after the last one the method
\* returns nil, and Load's deferred Unlock runs
NotifyWatchers ==
    \E p \in Goroutines :
        /\ mgr.pc[p] = "Notify"
        /\ IF mgr.i[p] < mgr.watchers
           THEN /\ mgr.mutex = NoGoroutine
                /\ mgr' = [mgr EXCEPT !.i[p] = @ + 1]
           ELSE mgr' = MgrReturn([mgr EXCEPT !.mutex =
                                        IF mgr.op[p] = "Load" THEN NoGoroutine ELSE @],
                                 p, NoErr)
        /\ UNCHANGED <<config, mgrFrame>>

\* Load: m.mutex.Lock(), released by the deferred Unlock when Load returns
LoadLock ==
    \E p \in Goroutines :
        /\ mgr.pc[p] = "Load"
        /\ mgr.mutex = NoGoroutine
        /\ mgr' = [mgr EXCEPT !.pc[p] = "ReadFile", !.mutex = p]
        /\ UNCHANGED <<config, mgrFrame>>

\* Load: os.ReadFile, json.Unmarshal, ApplyDefaults, Validate, m.config = &config
LoadRead ==
    \E p \in Goroutines :
        /\ mgr.pc[p] = "ReadFile"
        /\ LET unlocked == [mgr EXCEPT !.mutex = NoGoroutine]
               bytes == mgr.files[mgr.configPath]
               loaded == ApplyDefaults(UnmarshalConfig(bytes))
           IN IF mgr.configPath = NoFile
              THEN mgr' = MgrReturn(unlocked, p, ErrNotExist) /\ UNCHANGED config
              ELSE IF ~IsCompleteFile(bytes)
              THEN mgr' = MgrReturn(unlocked, p, ErrParseConfig) /\ UNCHANGED config
              ELSE IF Validate(loaded) # NoErr
              THEN mgr' = MgrReturn(unlocked, p, ErrInvalidConfiguration) /\ UNCHANGED config
              ELSE /\ config' = loaded
                   /\ mgr' = [mgr EXCEPT !.pc[p] = "Notify", !.i[p] = 0]
        /\ UNCHANGED mgrFrame

NextManager ==
    \/ MgrCall
    \/ MgrAddWatcher
    \/ UpdateAssign
    \/ SaveClone
    \/ SaveOpenTemp
    \/ SaveWriteTemp
    \/ SaveRename
    \/ SaveRemoveTemp
    \/ NotifyWatchers
    \/ LoadLock
    \/ LoadRead

SpecManager == InitManager /\ [][NextManager]_vars

\* ------------------------------------------------------------------------
\* The statistics collector driven through RecordGame and Reset
\* ------------------------------------------------------------------------

\* the results handed to RecordGame: nil, and a finished game's result with
\* either strategy and either outcome (the door numbers do not enter the
\* aggregate counts)
ResultArgs ==
    {NoResult} \cup
    [Won : BOOLEAN, Strategy : {Stay, Switch}, InitialChoice : {1},
     FinalChoice : {2}, CarPosition : {2}, HostOpenedDoor : {3}]

InitStats ==
    /\ Game = NoGame
    /\ call = [op |-> "NewCollector", result |-> NoResult, err |-> NoErr]
    /\ UIInit

StatsRecordGame ==
    \E result \in ResultArgs, saveOk \in BOOLEAN :
        /\ stats.TotalGames < MaxRecorded
        /\ LET r == StatsManagerRecordGame(stats, result, saveOk)
           IN /\ stats' = r.stats
              /\ call' = [op |-> "RecordGame", result |-> result, err |-> r.err]
        /\ UNCHANGED <<Game, ui, pending, finished, program, config, mgr>>

StatsReset ==
    \E saveOk \in BOOLEAN :
        LET r == StatsManagerReset(stats, saveOk)
        IN /\ stats' = r.stats
           /\ call' = [op |-> "Reset", result |-> NoResult, err |-> r.err]
           /\ UNCHANGED <<Game, ui, pending, finished, program, config, mgr>>

NextStats ==
    \/ StatsRecordGame
    \/ StatsReset

SpecStats == InitStats /\ [][NextStats]_vars

\* ------------------------------------------------------------------------
\* The program: the UI's Update driven by key presses and reveal ticks
\* ------------------------------------------------------------------------

\* Model as Update sees it
TheModel == [ui |-> ui, Game |-> Game, stats |-> stats]

FinishedTotal == finished[Stay] + finished[Switch]

InitUI ==
    /\ Game = NoGame
    /\ call = [op |-> "none", arg |-> -1, err |-> NoErr, phases |-> <<>>]
    /\ UIInit

\* the effect of one Update: the model, the command it returned, and the
\* count of the games that the UI brought to GameOver
Apply(out) ==
    /\ out.cmd = "tick" => FinishedTotal < MaxGames
    /\ Game' = out.M.Game
    /\ ui' = out.M.ui
    /\ stats' = out.M.stats
    /\ pending' = IF out.cmd = "tick" THEN pending + 1 ELSE pending
    /\ finished' = IF out.cmd = "tick"
                   THEN [finished EXCEPT ![out.M.Game.Result.Strategy] = @ + 1]
                   ELSE finished
    /\ program' = IF out.cmd \in {"quit", "panic"} THEN out.cmd ELSE program
    /\ UNCHANGED <<call, config, mgr>>

\* Update for a KeyMsg that handleKeyPress hands to the handler of route
KeyPressVia(route) ==
    \E key \in Keys :
        /\ Route(TheModel, key) = route
        /\ \E env \in Envs(TheModel, key) : Apply(handleKeyPress(TheModel, key, env))

GlobalKey ==
    /\ program = "running"
    /\ KeyPressVia("global")

ResetConfirmationKey ==
    /\ program = "running"
    /\ KeyPressVia("reset")

MainMenuKey ==
    /\ program = "running"
    /\ KeyPressVia("menu")

GameKey ==
    /\ program = "running"
    /\ KeyPressVia("game")

StatsKey ==
    /\ program = "running"
    /\ KeyPressVia("stats")

\* the tick of startRevealDelay fires: Update receives RevealDelayMsg
RevealDelay ==
    /\ program = "running"
    /\ pending > 0
    /\ \E ioOk \in BOOLEAN :
        LET out == UpdateRevealDelay(TheModel, [DefaultEnv EXCEPT !.ioOk = ioOk])
        IN /\ Game' = out.M.Game
           /\ ui' = out.M.ui
           /\ stats' = out.M.stats
           /\ pending' = pending - 1
           /\ program' = IF out.cmd = "panic" THEN "panic" ELSE program
           /\ UNCHANGED <<call, finished, config, mgr>>

NextUI ==
    \/ GlobalKey
    \/ ResetConfirmationKey
    \/ MainMenuKey
    \/ GameKey
    \/ StatsKey
    \/ RevealDelay

SpecUI == InitUI /\ [][NextUI]_vars

\* ------------------------------------------------------------------------
\* Properties of the game state machine (specification Spec)
\* ------------------------------------------------------------------------

TransitionOps == {"MakeInitialChoice", "MakeFinalChoice", "SwitchChoice", "StayWithChoice"}

CarDoors(g) == {i \in DOMAIN g.Doors : HasCar(g.Doors[i])}

\* C1: in every state reachable from NewGame by MakeInitialChoice,
\* MakeFinalChoice, SwitchChoice, StayWithChoice and Reset calls, failing or
\* not, exactly one of the three doors holds the car, and it is the door at
\* index CarPosition.
ExactlyOneCar ==
    /\ SliceLen(Game.Doors) = NumDoors
    /\ CarDoors(Game) = {Game.CarPosition}

\* a finished game that was then called again, in vain
W_ExactlyOneCar ==
    /\ Game.Phase = GameOver
    /\ call.op \in TransitionOps
    /\ call.err # NoErr
    /\ Game.CarPosition = NumDoors - 1

\* C2: whenever HostOpenedDoor is set (not -1) it differs from
\* PlayerInitialChoice and from CarPosition, whatever the initial choice, the
\* car position and the host's draw.
HostDoorValid ==
    Game.HostOpenedDoor # -1 =>
        /\ Game.HostOpenedDoor # Game.PlayerInitialChoice
        /\ Game.HostOpenedDoor # Game.CarPosition

\* the player picked the car and the host's draw took the second candidate
W_HostDoorValid ==
    /\ Game.HostOpenedDoor # -1
    /\ Game.PlayerInitialChoice = Game.CarPosition
    /\ Game.HostOpenedDoor = HostValidChoices(Game.Doors, Game.PlayerInitialChoice)[2]

\* C3: a transition method that returns an error leaves Phase, the two
\* choices, HostOpenedDoor, Result and every door's state as they were.
ErrorLeavesGameUnchanged ==
    [][(call'.op \in TransitionOps /\ call'.err # NoErr) =>
            /\ Game'.Phase = Game.Phase
            /\ Game'.PlayerInitialChoice = Game.PlayerInitialChoice
            /\ Game'.PlayerFinalChoice = Game.PlayerFinalChoice
            /\ Game'.HostOpenedDoor = Game.HostOpenedDoor
            /\ Game'.Result = Game.Result
            /\ \A i \in DOMAIN Game.Doors : Game'.Doors[i].State = Game.Doors[i].State]_vars

\* a final choice refused while a door is Selected and one is Opened
W_ErrorLeavesGameUnchanged ==
    /\ call.op = "MakeFinalChoice"
    /\ call.err = ErrOutOfRange
    /\ Game.Phase = FinalChoice
    /\ \E i \in DOMAIN Game.Doors : IsSelected(Game.Doors[i])

\* every value of the sequence is the successor of the one before it
StepsForward(seq) == \A k \in 1..(Len(seq) - 1) : seq[k + 1] = seq[k] + 1

\* C4: between two Resets Phase only advances along InitialChoice ->
\* HostReveal -> FinalChoice -> GameOver: every value a transition call
\* assigns to Phase is the successor of the value before it, so no phase is
\* skipped and none is revisited.
PhaseOnlyAdvances ==
    [][call'.op \in TransitionOps =>
            /\ StepsForward(<<Game.Phase>> \o call'.phases)
            /\ Game'.Phase = (<<Game.Phase>> \o call'.phases)[1 + Len(call'.phases)]
            /\ Game'.Phase >= Game.Phase
            /\ ~(Game.Phase = InitialChoice /\ Game'.Phase = GameOver)]_vars

\* a game that walked the whole sequence
W_PhaseOnlyAdvances ==
    /\ Game.Phase = GameOver
    /\ call.op = "StayWithChoice"
    /\ call.phases = <<GameOver>>

\* C6: Result is nil while Phase is not GameOver and non-nil once it is.
ResultIffGameOver ==
    (Game.Result # NoResult) <=> (Game.Phase = GameOver)

W_ResultIffGameOver ==
    /\ Game.Phase = GameOver
    /\ Game.Result # NoResult
    /\ call.op = "MakeFinalChoice"
    /\ call.err = NoErr

\* C7: after a successful MakeFinalChoice, SwitchChoice or StayWithChoice,
\* Result.Won is true exactly when the door at PlayerFinalChoice holds the
\* car.
WonIffFinalDoorHasCar ==
    (call.op \in TransitionOps /\ call.err = NoErr /\ Game.Phase = GameOver) =>
        (Game.Result.Won <=> HasCar(Game.Doors[Game.PlayerFinalChoice]))

\* a switch away from the car: lost although the first pick was right
W_WonIffFinalDoorHasCar ==
    /\ call.op = "SwitchChoice"
    /\ call.err = NoErr
    /\ Game.Phase = GameOver
    /\ Game.PlayerInitialChoice = Game.CarPosition
    /\ ~Game.Result.Won

\* C8: for every completed game Result.Strategy is Switch if
\* PlayerFinalChoice differs from PlayerInitialChoice, and Stay otherwise.
StrategyDerived ==
    Game.Phase = GameOver =>
        Game.Result.Strategy =
            (IF Game.PlayerFinalChoice # Game.PlayerInitialChoice THEN Switch ELSE Stay)

\* a switch made through MakeFinalChoice with an explicit index
W_StrategyDerived ==
    /\ Game.Phase = GameOver
    /\ call.op = "MakeFinalChoice"
    /\ Game.PlayerFinalChoice # Game.PlayerInitialChoice
    /\ Game.Result.Strategy = Switch

\* the doors that are neither the host's nor the player's first
SwitchTargets(g) ==
    {i \in DOMAIN g.Doors : i # g.HostOpenedDoor /\ i # g.PlayerInitialChoice}

\* C9: in FinalChoice SwitchChoice always succeeds and sets
\* PlayerFinalChoice to the one door that is neither HostOpenedDoor nor
\* PlayerInitialChoice (exactly one exists); the strategy is Switch.
SwitchPicksTheOtherDoor ==
    [][(Game.Phase = FinalChoice /\ call'.op = "SwitchChoice") =>
            /\ call'.err = NoErr
            /\ Cardinality(SwitchTargets(Game)) = 1
            /\ SwitchTargets(Game) = {Game'.PlayerFinalChoice}
            /\ Game'.Phase = GameOver
            /\ Game'.Result.Strategy = Switch]_vars

\* scenario C: first pick door 0, host opens door 2, switch lands on door 1
W_SwitchPicksTheOtherDoor ==
    /\ call.op = "SwitchChoice"
    /\ call.err = NoErr
    /\ Game.PlayerInitialChoice = 0
    /\ Game.HostOpenedDoor = 2
    /\ Game.PlayerFinalChoice = 1

\* C10: in FinalChoice, MakeFinalChoice on the host-opened door returns an
\* error and Phase remains FinalChoice.
FinalChoiceOnOpenedDoorFails ==
    [][(/\ Game.Phase = FinalChoice
        /\ call'.op = "MakeFinalChoice"
        /\ call'.arg = Game.HostOpenedDoor) =>
            /\ call'.err = ErrOpenedDoor
            /\ Game'.Phase = FinalChoice]_vars

W_FinalChoiceOnOpenedDoorFails ==
    /\ call.op = "MakeFinalChoice"
    /\ call.arg = Game.HostOpenedDoor
    /\ call.err = ErrOpenedDoor
    /\ Game.Phase = FinalChoice

\* C11: MakeInitialChoice returns an error whenever Phase is not
\* InitialChoice, and MakeFinalChoice, SwitchChoice and StayWithChoice return
\* an error whenever Phase is not FinalChoice.
WrongPhaseFails ==
    [][/\ (call'.op = "MakeInitialChoice" /\ Game.Phase # InitialChoice) =>
                call'.err = ErrNotInitialPhase
       /\ (/\ call'.op \in {"MakeFinalChoice", "SwitchChoice", "StayWithChoice"}
           /\ Game.Phase # FinalChoice) =>
                call'.err = ErrNotFinalPhase]_vars

\* a second first pick refused after the host's reveal
W_WrongPhaseFails ==
    /\ call.op = "MakeInitialChoice"
    /\ call.arg \in 0..(NumDoors - 1)
    /\ call.err = ErrNotInitialPhase
    /\ Game.Phase = FinalChoice

\* C12: once Phase is GameOver no call to MakeInitialChoice,
\* MakeFinalChoice, SwitchChoice or StayWithChoice changes any Game field,
\* any door or the Result: a transition call that changes Result finds it
\* nil, so the Result is created once per game and never mutated.
FinishedGameImmutable ==
    [][call'.op \in TransitionOps =>
            /\ Game.Phase = GameOver => (Game' = Game /\ call'.err # NoErr)
            /\ Game'.Result # Game.Result =>
                    (Game.Result = NoResult /\ Game.Phase = FinalChoice)]_vars

\* a switch attempted on a game already won by staying
W_FinishedGameImmutable ==
    /\ call.op = "SwitchChoice"
    /\ call.err = ErrNotFinalPhase
    /\ Game.Phase = GameOver
    /\ Game.Result.Strategy = Stay
    /\ Game.Result.Won

\* the doors that are neither the player's first pick nor the car's
HostCandidates(g) ==
    {i \in DOMAIN g.Doors : i # g.PlayerInitialChoice /\ i # g.CarPosition}

\* the host's validChoices for the first pick, as a set
HostValidSet(g) ==
    LET validChoices == HostValidChoices(g.Doors, g.PlayerInitialChoice)
    IN {validChoices[k] : k \in 1..Len(validChoices)}

\* C13 as the specification words it: the candidate set has size 1 if the
\* player chose the car and size 2 if the player chose a goat.
CandidatesOneIfCarTwoIfGoat ==
    (call.op = "MakeInitialChoice" /\ call.err = NoErr) =>
        /\ HostValidSet(Game) = HostCandidates(Game)
        /\ Cardinality(HostCandidates(Game)) =
                (IF Game.PlayerInitialChoice = Game.CarPosition THEN 1 ELSE 2)

\* C13, amended: the candidate set of the host policy (doors that are
\* neither the player's choice nor the car's door) has size 2 if the player
\* chose the car and size 1 if the player chose a goat.
CandidatesTwoIfCarOneIfGoat ==
    (call.op = "MakeInitialChoice" /\ call.err = NoErr) =>
        /\ HostValidSet(Game) = HostCandidates(Game)
        /\ Len(HostValidChoices(Game.Doors, Game.PlayerInitialChoice)) =
                Cardinality(HostCandidates(Game))
        /\ Cardinality(HostCandidates(Game)) =
                (IF Game.PlayerInitialChoice = Game.CarPosition THEN 2 ELSE 1)

\* the player chose a goat: one candidate, the other goat
W_CandidatesTwoIfCarOneIfGoat ==
    /\ call.op = "MakeInitialChoice"
    /\ call.err = NoErr
    /\ Game.PlayerInitialChoice # Game.CarPosition
    /\ HostValidSet(Game) = {Game.HostOpenedDoor}

\* the doors the host can open after first pick doorIndex in game g, over
\* every value the random source can return
HostOutcomes(g, doorIndex) ==
    {MakeInitialChoice(g, doorIndex, draw).game.HostOpenedDoor : draw \in RandomDraws}

\* C14: when exactly one door is neither the player's choice nor the car's
\* door (car at index 1 and first pick 0, say), the host opens that door
\* whatever the random source would return: no draw is involved.
SingleCandidateIsDeterministic ==
    [][(/\ Game.Phase = InitialChoice
        /\ call'.op = "MakeInitialChoice"
        /\ call'.arg \in DOMAIN Game.Doors
        /\ Cardinality(HostCandidates(Game')) = 1) =>
            /\ call'.err = NoErr
            /\ HostCandidates(Game') = {Game'.HostOpenedDoor}
            /\ HostOutcomes(Game, call'.arg) = {Game'.HostOpenedDoor}]_vars

\* scenario A: car at index 1, first pick 0, the host opens index 2
W_SingleCandidateIsDeterministic ==
    /\ call.op = "MakeInitialChoice"
    /\ call.err = NoErr
    /\ Game.CarPosition = 1
    /\ Game.PlayerInitialChoice = 0
    /\ Game.HostOpenedDoor = 2

\* C15: with the car at index 0 and the first pick 0, the host opens index
\* 1 or index 2 and nothing else, and the random source can produce either.
CarPickedHostOpensEither ==
    [][(/\ Game.Phase = InitialChoice
        /\ Game.CarPosition = 0
        /\ call'.op = "MakeInitialChoice"
        /\ call'.arg = 0) =>
            /\ call'.err = NoErr
            /\ Game'.HostOpenedDoor \in {1, 2}
            /\ HostOutcomes(Game, 0) = {1, 2}]_vars

\* scenario B, the host's draw took index 2
W_CarPickedHostOpensEither ==
    /\ call.op = "MakeInitialChoice"
    /\ call.err = NoErr
    /\ Game.CarPosition = 0
    /\ Game.PlayerInitialChoice = 0
    /\ Game.HostOpenedDoor = 2
    /\ Game.Phase = FinalChoice

\* the finishing call r succeeded and the game was won
WinsBy(r) == r.err = NoErr /\ r.game.Result # NoResult /\ r.game.Result.Won

\* the 9 combinations of car position and first pick
Combinations == (0..(NumDoors - 1)) \X (0..(NumDoors - 1))

\* the game of combination c in FinalChoice, the host breaking ties by
\* tieBreak
AtFinalChoice(c, tieBreak) == MakeInitialChoice(NewGame(c[1]), c[2], tieBreak[c]).game

SwitchWins(tieBreak) ==
    {c \in Combinations : WinsBy(SwitchChoice(AtFinalChoice(c, tieBreak)))}

StayWins(tieBreak) ==
    {c \in Combinations : WinsBy(StayWithChoice(AtFinalChoice(c, tieBreak)))}

\* C16: for every game in FinalChoice, switching wins if and only if
\* staying loses (staying wins exactly when the first pick is the car); over
\* the 9 combinations of first pick and car position always-switch wins in
\* exactly 6 and always-stay in exactly 3, whatever the host's tie-break.
SwitchWinsIffStayLoses ==
    /\ Game.Phase = FinalChoice =>
            /\ WinsBy(SwitchChoice(Game)) <=> ~WinsBy(StayWithChoice(Game))
            /\ WinsBy(StayWithChoice(Game)) <=>
                    (Game.PlayerInitialChoice = Game.CarPosition)
    /\ call.op = "NewGame" =>
            \A tieBreak \in [Combinations -> RandomDraws] :
                /\ Cardinality(SwitchWins(tieBreak)) = 6
                /\ Cardinality(StayWins(tieBreak)) = 3
                /\ SwitchWins(tieBreak) \cap StayWins(tieBreak) = {}

\* a game in FinalChoice that switching wins and staying loses
W_SwitchWinsIffStayLoses ==
    /\ Game.Phase = FinalChoice
    /\ Game.PlayerInitialChoice # Game.CarPosition
    /\ WinsBy(SwitchChoice(Game))
    /\ ~WinsBy(StayWithChoice(Game))

InitialChoiceAlwaysSucceeds ==
    [][/\ (/\ Game.Phase = InitialChoice
           /\ call'.op = "MakeInitialChoice"
           /\ call'.arg \in 0..(NumDoors - 1)) =>
                /\ call'.err = NoErr
                /\ call'.phases = <<HostReveal, FinalChoice>>
                /\ Game'.Phase = FinalChoice
                /\ Game'.HostOpenedDoor \in DOMAIN Game.Doors
                /\ \A draw \in RandomDraws :
                        LET r == MakeInitialChoice(Game, call'.arg, draw)
                        IN r.err = NoErr /\ r.game.Phase = FinalChoice
       /\ call'.err # ErrHost
       /\ Game'.Phase # HostReveal]_vars

\* the first pick was the car and the host still found a door
W_InitialChoiceAlwaysSucceeds ==
    /\ call.op = "MakeInitialChoice"
    /\ call.err = NoErr
    /\ call.arg = Game.CarPosition
    /\ call.phases = <<HostReveal, FinalChoice>>
    /\ Game.Phase = FinalChoice

\* C20: NewGame (and Reset, which assigns a NewGame) returns a game whose
\* Phase is InitialChoice, with PlayerInitialChoice, PlayerFinalChoice and
\* HostOpenedDoor all -1, Result nil and all three doors Closed; Phase is
\* Setup in no state a caller can see.
NewGameIsInInitialChoice ==
    /\ Game.Phase # Setup
    /\ call.op \in {"NewGame", "Reset"} =>
            /\ Game.Phase = InitialChoice
            /\ Game.PlayerInitialChoice = -1
            /\ Game.PlayerFinalChoice = -1
            /\ Game.HostOpenedDoor = -1
            /\ Game.Result = NoResult
            /\ SliceLen(Game.Doors) = NumDoors
            /\ \A i \in DOMAIN Game.Doors : IsClosed(Game.Doors[i])

\* a game replaced by a fresh one through Reset
W_NewGameIsInInitialChoice ==
    /\ call.op = "Reset"
    /\ Game.Phase = InitialChoice
    /\ Game.PlayerInitialChoice = -1
    /\ Game.Result = NoResult
    /\ \A i \in DOMAIN Game.Doors : IsClosed(Game.Doors[i])

\* C21: called before the host has opened a door, GetSwitchRecommendation,
\* GetHint and SwitchChoice all return an error (or no recommendation)
\* rather than a door index, whatever choice they are given.
NoRecommendationBeforeReveal ==
    (\A i \in DOMAIN Game.Doors : ~IsOpen(Game.Doors[i])) =>
        /\ SwitchChoice(Game).err # NoErr
        /\ \A playerChoice \in DoorArgs :
                /\ GetSwitchRecommendation(Game.Doors, playerChoice).err # NoErr
                /\ GetHint(Game.Doors, playerChoice).text # HintSwitch

\* C22: in FinalChoice StayWithChoice always succeeds, sets
\* PlayerFinalChoice to PlayerInitialChoice, and the strategy is Stay.
StayKeepsTheFirstPick ==
    [][(Game.Phase = FinalChoice /\ call'.op = "StayWithChoice") =>
            /\ call'.err = NoErr
            /\ Game'.Phase = GameOver
            /\ Game'.PlayerFinalChoice = Game.PlayerInitialChoice
            /\ Game'.PlayerInitialChoice = Game.PlayerInitialChoice
            /\ Game'.Result # NoResult
            /\ Game'.Result.Strategy = Stay]_vars

\* scenario D: first pick door 1, host opens door 0, the player stays
W_StayKeepsTheFirstPick ==
    /\ call.op = "StayWithChoice"
    /\ call.err = NoErr
    /\ Game.PlayerInitialChoice = 1
    /\ Game.HostOpenedDoor = 0
    /\ Game.PlayerFinalChoice = 1
    /\ Game.Result.Strategy = Stay

\* C37: in FinalChoice, GetSwitchRecommendation(Doors, PlayerInitialChoice)
\* returns without error the door index that SwitchChoice selects as the
\* final choice.
RecommendationIsSwitchTarget ==
    [][(Game.Phase = FinalChoice /\ call'.op = "SwitchChoice") =>
            LET rec == GetSwitchRecommendation(Game.Doors, Game.PlayerInitialChoice)
            IN /\ rec.err = NoErr
               /\ call'.err = NoErr
               /\ Game'.PlayerFinalChoice = rec.door]_vars

\* first pick door 0, host opens door 1: the switch goes to door 2, past the
\* opened door
W_RecommendationIsSwitchTarget ==
    /\ call.op = "SwitchChoice"
    /\ call.err = NoErr
    /\ Game.PlayerInitialChoice = 0
    /\ Game.HostOpenedDoor = 1
    /\ Game.PlayerFinalChoice = 2

\* ------------------------------------------------------------------------
\* Properties of the program (specification SpecUI)
\* ------------------------------------------------------------------------

\* C5: after any sequence of key events handled by Model.Update, TotalGames
\* equals the number of games that reached GameOver through the UI, and
\* SwitchStats.GamesPlayed and StayStats.GamesPlayed equal the numbers of
\* games finished by switching and by staying.
StatsCountFinishedGames ==
    /\ stats.TotalGames = finished[Switch] + finished[Stay]
    /\ stats.SwitchStats.GamesPlayed = finished[Switch]
    /\ stats.StayStats.GamesPlayed = finished[Stay]

\* C18: every door number shown to the user or exported for a completed
\* game (the game-over summary of the UI, the CSV and text exports of its
\* record) is the game's internal 0-based door index plus exactly 1, a value
\* in 1..3.
ShownDoorNumbersOneBased ==
    (Game # NoGame /\ Game.Result # NoResult) =>
        LET summary == View(TheModel)
            gameRecord == createGameRecord(Game.Result)
            row == exportCSV(gameRecord)
            line == exportText(gameRecord)
        IN /\ summary.shown =>
                /\ summary.InitialChoice = Game.PlayerInitialChoice + 1
                /\ summary.HostOpenedDoor = Game.HostOpenedDoor + 1
           /\ row.InitialChoice = Game.PlayerInitialChoice + 1
           /\ row.FinalChoice = Game.PlayerFinalChoice + 1
           /\ row.CarPosition = Game.CarPosition + 1
           /\ row.HostOpenedDoor = Game.HostOpenedDoor + 1
           /\ line.InitialChoice = Game.PlayerInitialChoice + 1
           /\ line.FinalChoice = Game.PlayerFinalChoice + 1
           /\ \A n \in {row.InitialChoice, row.FinalChoice, row.CarPosition,
                        row.HostOpenedDoor} : n \in 1..NumDoors

\* the doors the cursor can be put on, as a set
SelectableSet(M) ==
    LET selectableDoors == getSelectableDoors(M)
    IN {selectableDoors[k] : k \in 1..Len(selectableDoors)}

\* C25: while the game is in FinalChoice, after any sequence of key presses
\* (left, right, 1, 2, 3 among them) the door cursor is never on the
\* host-opened door, and exactly two doors, the first pick and the other
\* unopened door, can be reached by the cursor.
CursorAvoidsOpenedDoor ==
    (Game # NoGame /\ Game.Phase = FinalChoice) =>
        /\ ui.DoorCursor # Game.HostOpenedDoor
        /\ ui.DoorCursor \in SelectableSet(TheModel)
        /\ SelectableSet(TheModel) = {Game.PlayerInitialChoice} \cup SwitchTargets(Game)
        /\ Cardinality(SelectableSet(TheModel)) = 2

\* the host opened the middle door and the cursor went from door 0 past it
\* to door 2
W_CursorAvoidsOpenedDoor ==
    /\ Game # NoGame
    /\ Game.Phase = FinalChoice
    /\ Game.PlayerInitialChoice = 0
    /\ Game.HostOpenedDoor = 1
    /\ ui.DoorCursor = 2

\* the digits in the dialog once key is typed
EnteredWith(key) ==
    IF key \in DigitKeys /\ ui.CurrentInputIndex < NumConfirmDigits
    THEN [ui.UserInputNumbers EXCEPT ![ui.CurrentInputIndex + 1] = DigitOfKey(key)]
    ELSE ui.UserInputNumbers

\* key completes the entry: it is the fourth digit, or Enter on four digits
CompletesEntry(key) ==
    \/ key \in DigitKeys /\ ui.CurrentInputIndex = NumConfirmDigits - 1
    \/ key = KeyEnter /\ ui.CurrentInputIndex >= NumConfirmDigits

\* C26: statistics are reset through the UI only when the four digits
\* entered in the reset confirmation dialog equal the four digits it shows;
\* on a mismatch the statistics are unchanged, the dialog stays open and the
\* entered digits are cleared for a retry.
ResetNeedsMatchingDigits ==
    /\ ~ui.ShowResetConfirmation =>
            \A key \in Keys : \A env \in Envs(TheModel, key) :
                LET out == handleKeyPress(TheModel, key, env)
                IN out.M.stats = stats
    /\ ui.ShowResetConfirmation =>
            \A key \in Keys : \A env \in Envs(TheModel, key) :
                LET out == handleKeyPress(TheModel, key, env)
                    matches == EnteredWith(key) = ui.ResetConfirmationNumbers
                IN /\ out.M.stats # stats => (CompletesEntry(key) /\ matches)
                   /\ (CompletesEntry(key) /\ matches) =>
                            /\ out.M.stats = EmptyStats
                            /\ ~out.M.ui.ShowResetConfirmation
                   /\ (CompletesEntry(key) /\ ~matches) =>
                            /\ out.M.stats = stats
                            /\ out.M.ui.ShowResetConfirmation
                            /\ out.M.ui.UserInputNumbers = ZeroDigits
                            /\ out.M.ui.CurrentInputIndex = 0
                            /\ out.M.ui.ErrorMessage = MsgInvalidConfirmation

\* a wrong fourth digit on recorded statistics: they stay, the dialog too
W_ResetNeedsMatchingDigits ==
    /\ ui.ShowResetConfirmation
    /\ ui.ErrorMessage = MsgInvalidConfirmation
    /\ ui.UserInputNumbers = ZeroDigits
    /\ ui.CurrentInputIndex = 0
    /\ stats.TotalGames > 0

\* the game screen is what the user sees, the game in FinalChoice
OnFinalChoiceScreen ==
    /\ program = "running"
    /\ Game # NoGame
    /\ Game.Phase = FinalChoice
    /\ ui.CurrentView = GameView
    /\ ~ui.ShowHelp
    /\ ~ui.ShowResetConfirmation

\* C27: on the game screen in the Final Choice phase, pressing Enter stays
\* with the original choice: the game ends with the final choice equal to
\* the initial choice and strategy Stay.
EnterStaysWithFirstPick ==
    OnFinalChoiceScreen =>
        \A env \in Envs(TheModel, KeyEnter) :
            LET out == handleKeyPress(TheModel, KeyEnter, env)
            IN /\ out.M.Game.Phase = GameOver
               /\ out.M.Game.PlayerFinalChoice = Game.PlayerInitialChoice
               /\ out.M.Game.Result.Strategy = Stay

\* what pressing q does to the model as it is
PressQ == handleKeyPress(TheModel, KeyQ, DefaultEnv)

\* q with the help off: quit on the main menu, back to the menu elsewhere
QOnScreen ==
    ~ui.ShowHelp =>
        /\ PressQ.cmd = "quit" <=> ui.CurrentView = MainMenuView
        /\ ui.CurrentView # MainMenuView =>
                /\ PressQ.cmd = "none"
                /\ PressQ.M.ui.CurrentView = MainMenuView

\* q with the help on: the help closes, the screen under it is kept
QOnHelp ==
    ui.ShowHelp =>
        /\ PressQ.cmd = "none"
        /\ ~PressQ.M.ui.ShowHelp
        /\ PressQ.M.ui.CurrentView = ui.CurrentView
        /\ PressQ.M.Game = Game
        /\ PressQ.M.stats = stats

FinishedGameRecordedOnce ==
    [][/\ pending' = pending - 1 => stats'.TotalGames = stats.TotalGames + 1
       /\ pending' # pending - 1 => stats'.TotalGames <= stats.TotalGames]_vars

\* C32: whenever the current game's Phase is InitialChoice or FinalChoice,
\* IsRevealing and ShowResult are both false, so that the doors the phase
\* offers (all three on the first pick) are selectable.
ChoicePhasesAcceptSelection ==
    (Game # NoGame /\ Game.Phase \in {InitialChoice, FinalChoice}) =>
        /\ ~ui.IsRevealing
        /\ ~ui.ShowResult
        /\ Game.Phase = InitialChoice =>
                \A doorIndex \in 0..(NumDoors - 1) : isDoorSelectable(TheModel, doorIndex)

\* C33: while the help screen is shown, no key press other than h, q or Esc
\* changes the game, the current view or the statistics.
HelpScreenSwallowsKeys ==
    (program = "running" /\ ui.ShowHelp) =>
        \A key \in Keys \ {KeyH, KeyQ, KeyEscape} :
            \A env \in Envs(TheModel, key) :
                LET out == handleKeyPress(TheModel, key, env)
                IN /\ out.M.Game = Game
                   /\ out.M.ui.CurrentView = ui.CurrentView
                   /\ out.M.stats = stats

\* ------------------------------------------------------------------------
\* Properties of the random sources (specification SpecRandom)
\* ------------------------------------------------------------------------

\* C23: SecureIntn(n) / SecureRandom.Intn(n) returns 0 when n <= 0 and
\* otherwise a value v with 0 <= v < n, on the secure path and on the
\* fallback path.
IntnInRange ==
    call.op \in {"Intn", "SecureIntn"} =>
        /\ call.arg <= 0 => call.ret = 0
        /\ call.arg > 0 => (0 <= call.ret /\ call.ret < call.arg)

\* the fallback path delivering the largest value for a bound of 3
W_IntnInRange ==
    /\ call.op = "Intn"
    /\ ~call.cryptoOk
    /\ call.arg = NumDoors
    /\ call.ret = NumDoors - 1

\* C24: the car's position at game creation comes from the same
\* cryptographically secure source as the host's tie-break: while the secure
\* source delivers, its outcome decides both, and the time-seeded generator
\* decides only when the secure source fails.
CarPlacedBySecureSource ==
    /\ (call.op = "MakeInitialChoice" /\ call.err = NoErr /\ call.cryptoOk) =>
            LET validChoices == HostValidChoices(Game.Doors, Game.PlayerInitialChoice)
            IN Game.HostOpenedDoor =
                    validChoices[SecureRandomIntn(Len(validChoices), TRUE,
                                    call.secureDraw, call.seededDraw) + 1]
    /\ (call.op = "NewGame" /\ call.cryptoOk) =>
            Game.CarPosition =
                SecureRandomIntn(NumDoors, TRUE, call.secureDraw, call.seededDraw)

\* ------------------------------------------------------------------------
\* Properties of the configuration manager (specification SpecConfig)
\* ------------------------------------------------------------------------

\* C29: when Manager.Update, UpdateUI, UpdateGame, UpdateStats or
\* UpdateEducation is given an invalid configuration, it returns an error
\* and the configuration Get returns afterwards is the one it returned
\* before the call.
InvalidUpdateLeavesConfig ==
    (/\ call.op \in {"Update", "UpdateUI", "UpdateGame", "UpdateStats", "UpdateEducation"}
     /\ call.invalid) =>
        /\ call.err # NoErr
        /\ ManagerGet(config) = call.before

\* ------------------------------------------------------------------------
\* Properties of the statistics collector (specification SpecStats)
\* ------------------------------------------------------------------------

StrategyStatsAddUp(ss) == ss.GamesPlayed = ss.Wins + ss.Losses

\* C30: after any sequence of RecordGame calls on empty or reset statistics,
\* TotalGames = TotalWins + TotalLosses, TotalGames is the sum of the two
\* strategies' GamesPlayed, and each strategy's GamesPlayed = Wins + Losses.
AggregateCountsAddUp ==
    /\ stats.TotalGames = stats.TotalWins + stats.TotalLosses
    /\ stats.TotalGames = stats.SwitchStats.GamesPlayed + stats.StayStats.GamesPlayed
    /\ StrategyStatsAddUp(stats.SwitchStats)
    /\ StrategyStatsAddUp(stats.StayStats)

\* wins and losses recorded with both strategies, as in
\* TestUpdateAggregateStats
W_AggregateCountsAddUp ==
    /\ call.op = "RecordGame"
    /\ call.err = NoErr
    /\ stats.TotalGames = 4
    /\ stats.SwitchStats.Wins = 1
    /\ stats.SwitchStats.Losses = 1
    /\ stats.StayStats.Wins = 1
    /\ stats.StayStats.Losses = 1

\* ------------------------------------------------------------------------
\* Properties of the manager among goroutines (specification SpecManager)
\* ------------------------------------------------------------------------

\* C34: Save is atomic: at every moment, also while several Save or Update
\* calls run at once, the file at the config path holds a complete
\* configuration, never a partially written one.
ConfigFileAlwaysComplete ==
    /\ mgr.configPath # NoFile
    /\ IsCompleteFile(mgr.files[mgr.configPath])

\* C35: once concurrent Update calls have all returned successfully (and
\* nothing else was called), the configuration on disk equals the one held
\* in memory, which Get returns.
DiskEqualsMemoryAfterUpdates ==
    (/\ mgr.allUpdatesOk
     /\ \A p \in Goroutines : mgr.pc[p] = "idle") =>
        /\ IsCompleteFile(mgr.files[mgr.configPath])
        /\ UnmarshalConfig(mgr.files[mgr.configPath]) = ManagerGet(config)

\* C36: a watcher that calls Get from inside its callback never deadlocks,
\* whether Update or Load notifies it: the goroutine that runs the callback
\* does not itself hold the lock Get waits for.
WatcherGetNeverDeadlocks ==
    \A p \in Goroutines :
        (mgr.pc[p] = "Notify" /\ mgr.i[p] < mgr.watchers) => mgr.mutex # p

====
